---- MODULE Spec2Model ----
(***************************************************************************)
(* fasthx: the dispatch of one request through a route decorated with      *)
(* hx() or page() (fasthx/core_decorators.py), with the request            *)
(* classifier (fasthx/dependencies.py) and get_response (fasthx/utils.py). *)
(*                                                                         *)
(* Python values are records with a "type" field.  The route handler and   *)
(* the render functions are user code: what they do is an input, drawn in  *)
(* Init (handler, renders) and replayed by the actions func and renderer.  *)
(*                                                                         *)
(* Specifications:                                                         *)
(*   Spec              a dispatch through hx() / page()                    *)
(*   SpecSelector      ComponentHeader: construction and get_component     *)
(*   SpecAdapter       a dispatch with the render functions of HTMY and    *)
(*                     Jinja, the threads the calls run on, the transport  *)
(*                     of a streaming response                             *)
(*   SpecContext       the context factories of JinjaContext               *)
(*   SpecWrapAs        JinjaContext.wrap_as and the factories it returns   *)
(*   SpecRenderContext HTMY._make_render_context                           *)
(*   SpecDecorator     HTMY.hx / HTMY.page / Jinja.hx / Jinja.page: the    *)
(*                     core decorator they make, then a dispatch           *)
(*   SpecSideChannel   a dispatch whose handler sets the status code, the  *)
(*                     headers and the background task of a Response       *)
(* Each leaves the variables of the others at their idle values.           *)
(***************************************************************************)
EXTENDS Integers, Sequences, FiniteSets, TLC

VARIABLES
    route,      \* the decorator's arguments: kind, no_data, render_error, stream
    request,    \* the inbound request (its headers)
    kwargs,     \* the handler's keyword arguments, in order; Response objects are mutable
    handler,    \* what the decorated function does when called
    renders,    \* what a render function does when called
    pc,         \* position of the wrapper coroutine
    dep,        \* value injected as __hx_request / __page_request
    funcCall,   \* the arguments the handler was called with
    funcOut,    \* how the handler call ended: returned a value or raised
    renderCall, \* the arguments of the renderer call
    renderOut,  \* how the renderer call ended
    outcome,    \* how the wrapper ended: returned a value or raised
    calls,      \* calls of func, render, render_error and of a component factory in this dispatch
    prev        \* the previous dispatch of the same request: its headers and its outcome

\* One call of a header-keyed selector (fasthx/component_selectors.py).
VARIABLES
    sel_args,    \* the arguments ComponentHeader is constructed with
    self,        \* the ComponentHeader instance, None until it is constructed
    sel_pc,      \* "new": being constructed, "ready": constructed, "done": get_component ended
    sel_request, \* the request given to get_component
    sel_error,   \* the error given to get_component
    sel_result,  \* how get_component ended
    sel_lookups  \* header lookups made by get_component

\* A dispatch through a route decorated by an adapter (fasthx/htmy.py, fasthx/jinja.py).
VARIABLES
    adapter,     \* the HTMY or Jinja instance whose method decorates the route
    decorator,   \* the method called on it and its arguments
    target,      \* what the render function's selector gave: a component factory or a template name
    trace,       \* the calls of the handler and of the render functions, each with the thread it ran on
    sent         \* what the transport has sent of a streaming response's body

\* One call of a Jinja context factory (fasthx/jinja.py, JinjaContext).
VARIABLES
    make_context,  \* the JinjaContextFactory that is called
    route_result,  \* its route_result argument
    route_context, \* its route_context argument, a dict the factory may update
    jinja_context, \* how the call ended: the context it returned, or the error
    jc_pc,         \* "call": about to be called, "done": the call ended
    cache,         \* the lru_cache of JinjaContext.wrap_as, the least recently used entry first
    wrap_as_calls  \* the calls of JinjaContext.wrap_as so far, each with how it ended

\* One call of HTMY._make_render_context (fasthx/htmy.py).
VARIABLES
    htmy,           \* the HTMY instance: its request_processors
    render_call,    \* who builds the context, with which request and route context
    render_context, \* the context built so far (result in _make_render_context)
    rc_pc,          \* "call": not started, "loop": in the for loop, "done": returned
    rc_i            \* the index of the next request processor

dispatch_vars == <<route, request, kwargs, handler, renders, pc, dep, funcCall, funcOut,
                   renderCall, renderOut, outcome, calls, prev>>

selector_vars == <<sel_args, self, sel_pc, sel_request, sel_error, sel_result, sel_lookups>>

adapter_vars == <<adapter, decorator, target, trace, sent>>

context_vars == <<make_context, route_result, route_context, jinja_context, jc_pc,
                  cache, wrap_as_calls>>

htmy_vars == <<htmy, render_call, render_context, rc_pc, rc_i>>

\* What a dispatch through hx() or page() leaves alone.
aside == <<selector_vars, adapter_vars, context_vars, htmy_vars>>

vars == <<dispatch_vars, selector_vars, adapter_vars, context_vars, htmy_vars>>

-----------------------------------------------------------------------------
(* Bounds *)

\* Largest number of keyword arguments of the handler.
MaxArgs == 2

\* Largest number of items of a selector's components dict.
MaxItems == 2

\* Largest number of calls of JinjaContext.wrap_as.
MaxCalls == 3

\* Largest number of request processors of an HTMY instance.
MaxProcessors == 2

-----------------------------------------------------------------------------
(* Values *)

None == [type |-> "NoneType"]

\* status_code of the Response injected by FastAPI is None; None is falsy, so is 0.
NoneStatus == 0

HTTP_400_BAD_REQUEST == 400

DefaultStatus == 200

\* Status codes a handler sets on its Response argument (DataError of the tests).
StatusCodes == {499}

\* HX-Request header values sent by clients; "absent" stands for a request without the header.
HXHeaderValues == {"absent", "true", "false", "TRUE"}

\* Exception classes raised by handlers.
ErrorTypes == {"DataError", "ValueError"}

\* Response and its subclasses (isinstance(x, Response)).
ResponseTypes == {"Response", "HTMLResponse", "StreamingResponse"}

NoHeaders == [k \in {} |-> ""]

\* A Response argument as FastAPI injects it: no status code, no headers, no background task.
FreshResponse == [type |-> "Response", status_code |-> NoneStatus, headers |-> NoHeaders,
                  background |-> None]

\* A plain argument (the DependsRandomNumber of the tests).
IntArg == [type |-> "int"]

\* A background task a handler attaches to its Response argument.
BackgroundTask == [type |-> "BackgroundTask"]

\* The data a handler returns (the user list of the tests).
Data == [type |-> "list"]

\* A Response object created and returned by the handler itself.
ReturnedResponse == [type |-> "Response", status_code |-> 200, headers |-> NoHeaders,
                     background |-> None]

Exc(t) == [type |-> t]

\* The classes an exception of class t is an instance of.
bases(t) == IF t = "KeyError" THEN {t, "LookupError", "Exception"} ELSE {t, "Exception"}

\* isinstance(e, classes), classes a class or a tuple of classes.
isinstance(e, classes) == bases(e.type) \cap classes # {}

isinstance_Response(v) == v.type \in ResponseTypes

Request(h) == [type |-> "Request",
               headers |-> IF h = "absent" THEN NoHeaders ELSE [k \in {"hx-request"} |-> h]]

\* Header(): the value of the HX-Request header, None when the request has none.
Header_hx_request(req) ==
    IF "hx-request" \in DOMAIN req.headers
    THEN [type |-> "str", value |-> req.headers["hx-request"]]
    ELSE None

Returned(v) == [kind |-> "return", value |-> v]
Raised(e) == [kind |-> "raise", value |-> e]
Pending == [kind |-> "none", value |-> None]

NoCalls == [func |-> 0, render |-> 0, render_error |-> 0, component |-> 0]

\* A dict is the sequence of its items, in insertion order, its keys distinct.
has_key(dict, key) == \E i \in 1..Len(dict) : dict[i][1] = key

\* dict[key], for a key the dict has.
getitem(dict, key) == dict[CHOOSE i \in 1..Len(dict) : dict[i][1] = key][2]

\* dict[key] = value
setitem(dict, key, value) ==
    IF has_key(dict, key)
    THEN [i \in 1..Len(dict) |-> IF dict[i][1] = key THEN <<key, value>> ELSE dict[i]]
    ELSE Append(dict, <<key, value>>)

-----------------------------------------------------------------------------
(* fasthx/dependencies.py *)

\* Variant: any HX-Request header marks the request, whatever its value.
get_hx_request_any_value(req, hx_request) ==
    IF hx_request # None THEN req ELSE None

get_hx_request(req, hx_request) ==
    IF hx_request = [type |-> "str", value |-> "true"] THEN req ELSE None

get_page_request(req) == req

-----------------------------------------------------------------------------
(* fasthx/utils.py *)

\* Variant: the last Response among the values is taken.
get_response_last(kw) ==
    IF \E i \in 1..Len(kw) : isinstance_Response(kw[i])
    THEN kw[CHOOSE i \in 1..Len(kw) :
                /\ isinstance_Response(kw[i])
                /\ \A j \in (i + 1)..Len(kw) : ~isinstance_Response(kw[j])]
    ELSE None

RECURSIVE first_response(_, _)
first_response(kw, i) ==
    IF i > Len(kw) THEN None
    ELSE IF isinstance_Response(kw[i]) THEN kw[i]
    ELSE first_response(kw, i + 1)

get_response(kw) == first_response(kw, 1)

-----------------------------------------------------------------------------
(* fasthx/core_decorators.py: pieces shared by hx and page *)

\* Variant: the "or 200" is left out.
status_code_of_no_default(response) ==
    IF response = None THEN DefaultStatus ELSE response.status_code

\* getattr(response, "status_code", 200) or 200
status_code_of(response) ==
    IF response = None THEN DefaultStatus
    ELSE IF response.status_code = NoneStatus THEN DefaultStatus
    ELSE response.status_code

\* Variant: the headers are not handed to the new response.
headers_of_dropped(response) == NoHeaders

\* getattr(response, "headers", None); a response built with headers=None has no headers of its own
headers_of(response) == IF response = None THEN NoHeaders ELSE response.headers

\* getattr(response, "background", None)
background_of(response) == IF response = None THEN None ELSE response.background

StreamingResponse(content, response) ==
    [type |-> "StreamingResponse", body |-> content,
     status_code |-> status_code_of(response), headers |-> headers_of(response),
     media_type |-> "text/html", background |-> background_of(response)]

HTMLResponse(content, response) ==
    [type |-> "HTMLResponse", body |-> content,
     status_code |-> status_code_of(response), headers |-> headers_of(response),
     media_type |-> "text/html", background |-> background_of(response)]

\* Variant: an error of the render function is rendered by render_error, and
\* the response carries that HTML.
assemble_renders_render_error(stream, out, kw) ==
    LET content == IF out.kind = "raise"
                   THEN [type |-> IF stream THEN "AsyncIterator" ELSE "str",
                         fn |-> "render_error", of |-> out.value]
                   ELSE out.value
    IN
    IF stream THEN Returned(StreamingResponse(content, get_response(kw)))
    ELSE IF content.type = "str" THEN Returned(HTMLResponse(content, get_response(kw)))
    ELSE Raised(Exc("AttributeError"))

\* The end of both wrappers: the response built from what the renderer gave.
\* HTMLResponse encodes its content, which fails for anything that is not a string.
assemble(stream, out, kw) ==
    IF out.kind = "raise" THEN out
    ELSE IF stream THEN Returned(StreamingResponse(out.value, get_response(kw)))
    ELSE IF out.value.type = "str" THEN Returned(HTMLResponse(out.value, get_response(kw)))
    ELSE Raised(Exc("AttributeError"))

-----------------------------------------------------------------------------
(* Inputs *)

Positions(kw) == {i \in 1..Len(kw) : isinstance_Response(kw[i])}

Kwargs == UNION {[1..n -> {IntArg, FreshResponse}] : n \in 0..MaxArgs}

\* A handler sets a status code, a header and/or a background task on one of
\* its Response arguments (target; 0: it touches none), then returns data or a
\* Response, or raises.  backgrounds: whether it may set a background task.
HandlersWith(kw, backgrounds) ==
    {h \in [target : 0..Len(kw), status_code : {NoneStatus} \cup StatusCodes,
            header : BOOLEAN, background : backgrounds,
            out : {Returned(Data), Returned(ReturnedResponse)}
                  \cup {Raised(Exc(t)) : t \in ErrorTypes}] :
        /\ h.target # 0 => h.target \in Positions(kw)
        /\ h.target = 0 <=> (h.status_code = NoneStatus /\ ~h.header /\ ~h.background)}

\* The handlers of the tests: they set no background task.
Handlers(kw) == HandlersWith(kw, {FALSE})

\* A render function returns a string (an iterator of chunks when streaming),
\* returns a Response object, or raises.
Renders == {"str", "Response", "raise"}

\* The error argument of a ComponentHeader: None, a class or a tuple of classes.
ErrorFilters == {{}, {"DataError"}, {"Exception"}}

\* Component selectors of HTMY: a component factory, or a ComponentHeader.
\* ComponentHeader(error=None) is written error |-> {}.
Selectors == {[type |-> "factory"]} \cup [type : {"ComponentHeader"}, error : ErrorFilters]

\* render_error: None, the render_data_error function of the tests (renders
\* DataError, raises the rest), or the function HTMY makes from a selector.
RenderErrors ==
    {None, [type |-> "render_data_error"]}
    \cup {[type |-> "HTMY", selector |-> sel] : sel \in Selectors}

Routes ==
    [kind : {"hx"}, no_data : BOOLEAN, render_error : RenderErrors, stream : BOOLEAN]
    \cup [kind : {"page"}, no_data : {FALSE}, render_error : RenderErrors, stream : BOOLEAN]

-----------------------------------------------------------------------------
(* The state machine *)

\* No selector is under construction or being called.
selector_idle ==
    /\ sel_args = None
    /\ self = None
    /\ sel_pc = "idle"
    /\ sel_request = None
    /\ sel_error = None
    /\ sel_result = Pending
    /\ sel_lookups = 0

\* No adapter's render function has run.
adapter_idle ==
    /\ adapter = None
    /\ decorator = None
    /\ target = None
    /\ trace = <<>>
    /\ sent = <<>>

\* No Jinja context factory is being called.
context_idle ==
    /\ make_context = None
    /\ route_result = None
    /\ route_context = <<>>
    /\ jinja_context = Pending
    /\ jc_pc = "idle"
    /\ cache = <<>>
    /\ wrap_as_calls = <<>>

\* No HTMY rendering context is being built.
htmy_idle ==
    /\ htmy = None
    /\ render_call = None
    /\ render_context = <<>>
    /\ rc_pc = "idle"
    /\ rc_i = 0

Init ==
    /\ selector_idle
    /\ adapter_idle
    /\ context_idle
    /\ htmy_idle
    /\ route \in Routes
    /\ \E h \in HXHeaderValues : request = Request(h)
    /\ kwargs \in Kwargs
    /\ handler \in Handlers(kwargs)
    /\ renders \in Renders
    /\ pc = "start"
    /\ dep = None
    /\ funcCall = None
    /\ funcOut = Pending
    /\ renderCall = None
    /\ renderOut = Pending
    /\ outcome = Pending
    /\ calls = NoCalls
    /\ prev = [request |-> None, outcome |-> Pending]

\* The name of the handler's i-th parameter; a name is a sequence of strings.
parameter(i) == [j \in 1..i |-> "a"]

\* The parameter hx() or page() appends to the signature of the wrapper.
injected(kind) == IF kind = "hx" THEN <<"__hx_request">> ELSE <<"__page_request">>

\* append_to_signature: the handler's parameters (wraps keeps them), then the
\* appended one.  n is the number of the handler's parameters.
append_to_signature(n, param) ==
    [i \in 1..(n + 1) |-> IF i <= n THEN parameter(i) ELSE param]

\* FastAPI solves the dependencies of the signature: a dict by parameter name.
\* kw has the values of the handler's parameters, value the one of the appended.
solve(signature, kw, value) ==
    [i \in 1..Len(signature) |-> <<signature[i], IF i <= Len(kw) THEN kw[i] ELSE value>>]

\* The values of the items of a dict whose key is not name, in order.
RECURSIVE others(_, _)
others(dict, name) ==
    IF dict = <<>> THEN <<>>
    ELSE (IF Head(dict)[1] = name THEN <<>> ELSE <<Head(dict)[2]>>) \o others(Tail(dict), name)

\* Variant: the injected parameter stays among the keyword arguments.
bind_keeps_injected(values, name) ==
    [request |-> getitem(values, name),
     kwargs |-> [i \in 1..Len(values) |-> values[i][2]]]

\* The call wrapper(**values) binds the parameters of
\* wrapper(__hx_request, *args, **kwargs): the named one takes its value,
\* **kwargs takes the rest.
bind(values, name) ==
    [request |-> getitem(values, name), kwargs |-> others(values, name)]

\* func(*args, **kwargs) in the wrappers: args is empty, FastAPI passes keywords only.
call_func(kw) == [type |-> "call", args |-> <<>>, kwargs |-> kw]

\* FastAPI resolves the parameters of the wrapper's signature, the appended
\* one included, and calls the wrapper with them.
Depends ==
    /\ UNCHANGED aside
    /\ pc = "start"
    /\ LET name == injected(route.kind)
           value == IF route.kind = "hx"
                    THEN get_hx_request(request, Header_hx_request(request))
                    ELSE get_page_request(request)
           values == solve(append_to_signature(Len(kwargs), name), kwargs, value)
           bound == bind(values, name) IN
        /\ dep' = bound.request
        /\ kwargs' = bound.kwargs
    /\ pc' = "wrapper"
    /\ UNCHANGED <<route, request, handler, renders, funcCall, funcOut, renderCall,
                   renderOut, outcome, calls, prev>>

\* Variant: the test of the request is inverted.
hx_rejects_inverted(no_data, hx_request) == no_data /\ hx_request # None

\* if no_data and __hx_request is None
hx_rejects(no_data, hx_request) == no_data /\ hx_request = None

\* hx wrapper, up to the call of the handler.
hx_wrapper_enter ==
    /\ UNCHANGED aside
    /\ pc = "wrapper"
    /\ route.kind = "hx"
    /\ IF hx_rejects(route.no_data, dep)
       THEN /\ outcome' = Raised([type |-> "HTTPException",
                                  status_code |-> HTTP_400_BAD_REQUEST])
            /\ pc' = "done"
       ELSE /\ pc' = "func"
            /\ UNCHANGED outcome
    /\ UNCHANGED <<route, request, kwargs, handler, renders, dep, funcCall, funcOut, renderCall,
                   renderOut, calls, prev>>

\* page wrapper, up to the call of the handler.
page_wrapper_enter ==
    /\ UNCHANGED aside
    /\ pc = "wrapper"
    /\ route.kind = "page"
    /\ pc' = "func"
    /\ UNCHANGED <<route, request, kwargs, handler, renders, dep, funcCall, funcOut, renderCall,
                   renderOut, outcome, calls, prev>>

\* The handler's effect on its Response argument.
mutate(kw, h) ==
    [i \in 1..Len(kw) |->
        IF i # h.target THEN kw[i]
        ELSE [kw[i] EXCEPT
                !.status_code = IF h.status_code = NoneStatus THEN @ ELSE h.status_code,
                !.headers = IF h.header THEN [k \in {"test-header"} |-> "exists"] ELSE @,
                !.background = IF h.background THEN BackgroundTask ELSE @]]

\* execute_maybe_sync_func(func, *args, **kwargs): the decorated function runs.
func ==
    /\ UNCHANGED aside
    /\ pc = "func"
    /\ funcCall' = call_func(kwargs)
    /\ kwargs' = mutate(kwargs, handler)
    /\ funcOut' = handler.out
    /\ calls' = [calls EXCEPT !.func = @ + 1]
    /\ pc' = "after_func"
    /\ UNCHANGED <<route, request, handler, renders, dep, renderCall, renderOut,
                   outcome, prev>>

\* The arguments of renderer(result, context=kwargs, request=...).
call_args(fn, result, kw, req) ==
    [fn |-> fn, result |-> result, context |-> kw, request |-> req]

\* Variant: render_error is used whenever it is configured.
hx_after_func_wrong_renderer(out, render_error, hx_request, kw) ==
    IF out.kind = "raise" /\ (render_error = None \/ hx_request = None)
    THEN [pc |-> "done", outcome |-> out, call |-> None]
    ELSE IF hx_request = None \/ isinstance_Response(out.value)
    THEN [pc |-> "done", outcome |-> Returned(out.value), call |-> None]
    ELSE [pc |-> "renderer", outcome |-> Pending,
          call |-> call_args(IF render_error # None THEN "render_error" ELSE "render",
                             out.value, kw, hx_request)]

\* Variant: the result is rendered for every request.
hx_after_func_always_renders(out, render_error, hx_request, kw) ==
    IF out.kind = "raise" /\ (render_error = None \/ hx_request = None)
    THEN [pc |-> "done", outcome |-> out, call |-> None]
    ELSE IF isinstance_Response(out.value)
    THEN [pc |-> "done", outcome |-> Returned(out.value), call |-> None]
    ELSE [pc |-> "renderer", outcome |-> Pending,
          call |-> call_args(IF out.kind = "raise" THEN "render_error" ELSE "render",
                             out.value, kw, hx_request)]

\* Variant: an error is raised again only when there is no render_error.
hx_after_func_keeps_error(out, render_error, hx_request, kw) ==
    IF out.kind = "raise" /\ render_error = None
    THEN [pc |-> "done", outcome |-> out, call |-> None]
    ELSE IF hx_request = None \/ isinstance_Response(out.value)
    THEN [pc |-> "done", outcome |-> Returned(out.value), call |-> None]
    ELSE [pc |-> "renderer", outcome |-> Pending,
          call |-> call_args(IF out.kind = "raise" THEN "render_error" ELSE "render",
                             out.value, kw, hx_request)]

\* hx wrapper from the handler's end to the renderer's call, or to an early end.
hx_after_func(out, render_error, hx_request, kw) ==
    IF out.kind = "raise" /\ (render_error = None \/ hx_request = None)
    THEN [pc |-> "done", outcome |-> out, call |-> None]
    ELSE IF hx_request = None \/ isinstance_Response(out.value)
    THEN [pc |-> "done", outcome |-> Returned(out.value), call |-> None]
    ELSE [pc |-> "renderer", outcome |-> Pending,
          call |-> call_args(IF out.kind = "raise" THEN "render_error" ELSE "render",
                             out.value, kw, hx_request)]

hx_wrapper_result ==
    /\ UNCHANGED aside
    /\ pc = "after_func"
    /\ route.kind = "hx"
    /\ LET n == hx_after_func(funcOut, route.render_error, dep, kwargs) IN
        /\ pc' = n.pc
        /\ outcome' = n.outcome
        /\ renderCall' = n.call
    /\ UNCHANGED <<route, request, kwargs, handler, renders, dep, funcCall, funcOut, renderOut,
                   calls, prev>>

\* Variant: page returns the raw result to requests without the marker, as hx does.
page_after_func_checks_marker(out, render_error, page_request, kw) ==
    IF out.kind = "raise" /\ render_error = None
    THEN [pc |-> "done", outcome |-> out, call |-> None]
    ELSE IF get_hx_request(page_request, Header_hx_request(page_request)) = None
            \/ isinstance_Response(out.value)
    THEN [pc |-> "done", outcome |-> Returned(out.value), call |-> None]
    ELSE [pc |-> "renderer", outcome |-> Pending,
          call |-> call_args(IF out.kind = "raise" THEN "render_error" ELSE "render",
                             out.value, kw, page_request)]

\* Variant: a returned Response is rendered like any other result.
page_after_func_renders_response(out, render_error, page_request, kw) ==
    IF out.kind = "raise" /\ render_error = None
    THEN [pc |-> "done", outcome |-> out, call |-> None]
    ELSE [pc |-> "renderer", outcome |-> Pending,
          call |-> call_args(IF out.kind = "raise" THEN "render_error" ELSE "render",
                             out.value, kw, page_request)]

\* Variant: with a render_error configured, the handler's error is given to render.
page_after_func_error_to_render(out, render_error, page_request, kw) ==
    IF out.kind = "raise" /\ render_error = None
    THEN [pc |-> "done", outcome |-> out, call |-> None]
    ELSE IF isinstance_Response(out.value)
    THEN [pc |-> "done", outcome |-> Returned(out.value), call |-> None]
    ELSE [pc |-> "renderer", outcome |-> Pending,
          call |-> call_args("render", out.value, kw, page_request)]

\* page wrapper from the handler's end to the renderer's call, or to an early end.
page_after_func(out, render_error, page_request, kw) ==
    IF out.kind = "raise" /\ render_error = None
    THEN [pc |-> "done", outcome |-> out, call |-> None]
    ELSE IF isinstance_Response(out.value)
    THEN [pc |-> "done", outcome |-> Returned(out.value), call |-> None]
    ELSE [pc |-> "renderer", outcome |-> Pending,
          call |-> call_args(IF out.kind = "raise" THEN "render_error" ELSE "render",
                             out.value, kw, page_request)]

page_wrapper_result ==
    /\ UNCHANGED aside
    /\ pc = "after_func"
    /\ route.kind = "page"
    /\ LET n == page_after_func(funcOut, route.render_error, dep, kwargs) IN
        /\ pc' = n.pc
        /\ outcome' = n.outcome
        /\ renderCall' = n.call
    /\ UNCHANGED <<route, request, kwargs, handler, renders, dep, funcCall, funcOut, renderOut,
                   calls, prev>>

\* Variant: the class of the error is not compared with the accepted classes.
get_component_raises_unfiltered(selector, error) ==
    error # None /\ selector.error = {}

\* Variant: without accepted classes, no error is raised again.
get_component_raises_filtered_only(selector, error) ==
    error # None /\ selector.error # {} /\ ~isinstance(error, selector.error)

\* ComponentHeader.get_component, its first statement: the error is raised
\* again unless the selector accepts it.
get_component_raises(selector, error) ==
    error # None /\ (selector.error = {} \/ ~isinstance(error, selector.error))

\* Whether a render_error function raises the error it is given.
\* HTMY: only a RequestComponentSelector is asked; a factory is used as it is.
render_error_raises(render_error, error) ==
    IF render_error.type = "HTMY"
    THEN /\ render_error.selector.type = "ComponentHeader"
         /\ get_component_raises(render_error.selector, error)
    ELSE ~isinstance(error, {"DataError"})

\* What the called render function gives.  render_error raises the error it
\* was given when it does not accept it.  Otherwise the component is made and
\* rendered: the function returns a string (an iterator of chunks when
\* streaming), returns a Response, or raises.
rendered(call, render_error, stream, behaviour) ==
    IF call.fn = "render_error" /\ render_error_raises(render_error, call.result)
    THEN [out |-> Raised(call.result), component |-> 0]
    ELSE [component |-> 1,
          out |-> CASE behaviour = "raise" -> Raised(Exc("RenderError"))
                    [] behaviour = "Response" -> Returned(ReturnedResponse)
                    [] OTHER -> Returned([type |-> IF stream THEN "AsyncIterator" ELSE "str",
                                          fn |-> call.fn, of |-> call.result])]

\* renderer(result, context=kwargs, request=...): the render function runs.
renderer ==
    /\ UNCHANGED aside
    /\ pc = "renderer"
    /\ LET r == rendered(renderCall, route.render_error, route.stream, renders) IN
        /\ renderOut' = r.out
        /\ calls' = [calls EXCEPT ![renderCall.fn] = @ + 1, !.component = @ + r.component]
    /\ pc' = "after_render"
    /\ UNCHANGED <<route, request, kwargs, handler, renders, dep, funcCall, funcOut, renderCall,
                   outcome, prev>>

hx_wrapper_respond ==
    /\ UNCHANGED aside
    /\ pc = "after_render"
    /\ route.kind = "hx"
    /\ outcome' = assemble(route.stream, renderOut, kwargs)
    /\ pc' = "done"
    /\ UNCHANGED <<route, request, kwargs, handler, renders, dep, funcCall, funcOut, renderCall,
                   renderOut, calls, prev>>

page_wrapper_respond ==
    /\ UNCHANGED aside
    /\ pc = "after_render"
    /\ route.kind = "page"
    /\ outcome' = assemble(route.stream, renderOut, kwargs)
    /\ pc' = "done"
    /\ UNCHANGED <<route, request, kwargs, handler, renders, dep, funcCall, funcOut, renderCall,
                   renderOut, calls, prev>>

\* The arguments as FastAPI passes them for a new request.
fresh(kw) == [i \in 1..Len(kw) |-> IF isinstance_Response(kw[i]) THEN FreshResponse ELSE kw[i]]

\* The client sends the same request again, with another HX-Request header.
resend ==
    /\ UNCHANGED aside
    /\ pc = "done"
    /\ \E h \in HXHeaderValues : request' = Request(h)
    /\ kwargs' = fresh(kwargs)
    /\ prev' = [request |-> request, outcome |-> outcome]
    /\ pc' = "start"
    /\ dep' = None
    /\ funcCall' = None
    /\ funcOut' = Pending
    /\ renderCall' = None
    /\ renderOut' = Pending
    /\ outcome' = Pending
    /\ calls' = NoCalls
    /\ UNCHANGED <<route, handler, renders>>

Next ==
    \/ Depends
    \/ hx_wrapper_enter
    \/ page_wrapper_enter
    \/ func
    \/ hx_wrapper_result
    \/ page_wrapper_result
    \/ renderer
    \/ hx_wrapper_respond
    \/ page_wrapper_respond
    \/ resend

Spec == Init /\ [][Next]_vars

\* A dispatch whose handler may also attach a background task to a Response
\* argument; the render functions return their HTML.
SideChannelRoutes ==
    [kind : {"hx", "page"}, no_data : {FALSE},
     render_error : {None, [type |-> "render_data_error"]}, stream : BOOLEAN]

InitSideChannel ==
    /\ selector_idle
    /\ adapter_idle
    /\ context_idle
    /\ htmy_idle
    /\ route \in SideChannelRoutes
    /\ \E h \in {"absent", "true"} : request = Request(h)
    /\ kwargs \in Kwargs
    /\ handler \in HandlersWith(kwargs, BOOLEAN)
    /\ renders = "str"
    /\ pc = "start"
    /\ dep = None
    /\ funcCall = None
    /\ funcOut = Pending
    /\ renderCall = None
    /\ renderOut = Pending
    /\ outcome = Pending
    /\ calls = NoCalls
    /\ prev = [request |-> None, outcome |-> Pending]

SpecSideChannel == InitSideChannel /\ [][Next]_vars

\* No request is being dispatched.
dispatch_idle ==
    /\ route = None
    /\ request = None
    /\ kwargs = <<>>
    /\ handler = None
    /\ renders = "str"
    /\ pc = "idle"
    /\ dep = None
    /\ funcCall = None
    /\ funcOut = Pending
    /\ renderCall = None
    /\ renderOut = Pending
    /\ outcome = Pending
    /\ calls = NoCalls
    /\ prev = [request |-> None, outcome |-> Pending]

-----------------------------------------------------------------------------
(* fasthx/component_selectors.py: ComponentHeader (and, line for line the   *)
(* same, TemplateHeader of fasthx/jinja.py)                                 *)

\* A str is the sequence of its characters.
Letters == {"a", "A", "b"}

\* str.lower(), character by character.
lower_char(c) == IF c = "A" THEN "a" ELSE c

lower(str) == [i \in 1..Len(str) |-> lower_char(str[i])]

\* Keys of components and values of the header: they differ in case ("a", "A"),
\* one is a prefix of another ("a", "ab"), or they are unrelated ("a", "b").
Strings == {<<"a">>, <<"A">>, <<"b">>, <<"a", "b">>, <<"A", "b">>}

\* {k.lower(): v for k, v in components.items()}, the first n items done.
RECURSIVE lower_keys(_, _)
lower_keys(dict, n) ==
    IF n = 0 THEN <<>>
    ELSE setitem(lower_keys(dict, n - 1), lower(dict[n][1]), dict[n][2])

\* Variant: the keys are kept as they were written.
post_init_keeps_keys(sel) == sel

\* ComponentHeader.__post_init__
post_init(sel) ==
    IF sel.case_sensitive THEN sel
    ELSE [sel EXCEPT !.components = lower_keys(sel.components, Len(sel.components))]

\* request.headers.get(name, None)
headers_get(req, name) ==
    IF name \in DOMAIN req.headers
    THEN [type |-> "str", value |-> req.headers[name]]
    ELSE None

\* Variant: an unknown key gets the default when there is one.
lookup_or_default(sel, key) ==
    IF has_key(sel.components, key) THEN Returned(getitem(sel.components, key))
    ELSE IF sel.default = None THEN Raised(Exc("KeyError"))
    ELSE Returned(sel.default)

\* self.components[key]
lookup(sel, key) ==
    IF has_key(sel.components, key) THEN Returned(getitem(sel.components, key))
    ELSE Raised(Exc("KeyError"))

\* Variant: without a header and without a default, None is returned.
without_header_none(sel) == Returned(sel.default)

\* The elif and else branches of get_component: the request has no such header.
without_header(sel) ==
    IF sel.default = None THEN Raised(Exc("KeyError")) ELSE Returned(sel.default)

\* ComponentHeader.get_component(request, error): how it ends, and the header
\* lookups it made.
get_component(sel, req, error) ==
    IF get_component_raises(sel, error)
    THEN [out |-> Raised(error), lookups |-> 0]
    ELSE LET key == headers_get(req, sel.header) IN
        [lookups |-> 1,
         out |-> IF key # None
                 THEN lookup(sel, IF sel.case_sensitive THEN key.value ELSE lower(key.value))
                 ELSE without_header(sel)]

\* Component factories (the Profile classes of the tests).
Components == {[type |-> "component", name |-> n] : n \in {"Profile_h1", "Profile_p"}}

DefaultComponent == [type |-> "component", name |-> "Profile_span"]

\* dict literals of at most MaxItems items.
Dicts ==
    {d \in UNION {[1..n -> Strings \X Components] : n \in 0..MaxItems} :
        \A i, j \in 1..Len(d) : d[i][1] = d[j][1] => i = j}

\* ComponentHeader(header, components, error=, default=, case_sensitive=)
ComponentHeaders ==
    [type : {"ComponentHeader"}, header : {"x-component"}, components : Dicts,
     error : ErrorFilters, default : {None, DefaultComponent}, case_sensitive : BOOLEAN]

\* A request with the header of the selector, or without it.
SelectorRequests ==
    {[type |-> "Request", headers |-> NoHeaders]}
    \cup {[type |-> "Request", headers |-> [k \in {"x-component"} |-> v]] : v \in Strings}

SelectorErrors == {None} \cup {Exc(t) : t \in ErrorTypes}

InitSelector ==
    /\ sel_args \in ComponentHeaders
    /\ self = None
    /\ sel_pc = "new"
    /\ sel_request \in SelectorRequests
    /\ sel_error \in SelectorErrors
    /\ sel_result = Pending
    /\ sel_lookups = 0
    /\ dispatch_idle
    /\ adapter_idle
    /\ context_idle
    /\ htmy_idle

\* The dataclass is constructed: __init__ stores the arguments, then __post_init__.
ComponentHeader_new ==
    /\ UNCHANGED <<adapter_vars, context_vars, htmy_vars>>
    /\ sel_pc = "new"
    /\ self' = post_init(sel_args)
    /\ sel_pc' = "ready"
    /\ UNCHANGED <<sel_args, sel_request, sel_error, sel_result, sel_lookups, dispatch_vars>>

\* A render function calls selector.get_component(request, error).
get_component_call ==
    /\ UNCHANGED <<adapter_vars, context_vars, htmy_vars>>
    /\ sel_pc = "ready"
    /\ LET r == get_component(self, sel_request, sel_error) IN
        /\ sel_result' = r.out
        /\ sel_lookups' = r.lookups
    /\ sel_pc' = "done"
    /\ UNCHANGED <<sel_args, self, sel_request, sel_error, dispatch_vars>>

NextSelector ==
    \/ ComponentHeader_new
    \/ get_component_call

SpecSelector == InitSelector /\ [][NextSelector]_vars

-----------------------------------------------------------------------------
(* fasthx/htmy.py and fasthx/jinja.py: the render functions the adapters    *)
(* hand to hx() and page(), and fasthx/utils.py: execute_maybe_sync_func    *)

\* Variant: every function is awaited on the event loop.
execute_maybe_sync_func_no_thread(is_coroutine_function) == "event_loop"

\* execute_maybe_sync_func: the thread the function runs on.
execute_maybe_sync_func(is_coroutine_function) ==
    IF is_coroutine_function THEN "event_loop" ELSE "threadpool"

\* The thread of a render function the wrapper calls: the streaming branch
\* calls it as it is, in the wrapper's coroutine; the other branch goes
\* through execute_maybe_sync_func.
renderer_thread(stream, fn) ==
    IF stream THEN "event_loop" ELSE execute_maybe_sync_func(fn.is_async)

\* isinstance(selector, RequestComponentSelector): it has a get_component method.
isinstance_RequestComponentSelector(selector) ==
    selector.type \in {"ComponentHeader", "TemplateHeader"}

\* str.lstrip("/")
RECURSIVE lstrip(_)
lstrip(str) ==
    IF str # <<>> /\ Head(str) = "/" THEN lstrip(Tail(str)) ELSE str

\* Variant: the KeyError of the selector is let through.
resolve_selector_keeps_KeyError(template, error, req) ==
    IF isinstance_RequestComponentSelector(template)
    THEN get_component(template, req, error).out
    ELSE IF template.type \in {"str", "JinjaPath"} THEN Returned(template)
    ELSE Raised(Exc("ValueError"))

\* Jinja._resolve_template_name, up to the prefix: the selector's result.
resolve_selector(template, error, req) ==
    IF isinstance_RequestComponentSelector(template)
    THEN LET r == get_component(template, req, error).out IN
         IF r.kind = "raise" /\ isinstance(r.value, {"KeyError"})
         THEN Raised(Exc("ValueError"))
         ELSE r
    ELSE IF template.type \in {"str", "JinjaPath"} THEN Returned(template)
    ELSE Raised(Exc("ValueError"))

\* Variant: a JinjaPath gets the prefix as any other name.
resolve_template_name_prefixes_all(template, error, prefix, req) ==
    LET r == resolve_selector(template, error, req) IN
    IF r.kind = "raise" THEN r
    ELSE LET name == lstrip(r.value.value)
         IN Returned([type |-> "str",
                      value |-> IF prefix # None /\ prefix.value # <<>>
                                THEN prefix.value \o <<"/">> \o name
                                ELSE name])

\* Jinja._resolve_template_name
resolve_template_name(template, error, prefix, req) ==
    LET r == resolve_selector(template, error, req) IN
    IF r.kind = "raise" THEN r
    ELSE LET pre == IF r.value.type = "JinjaPath" THEN None ELSE prefix
             name == lstrip(r.value.value)
         IN Returned([type |-> "str",
                      value |-> IF pre # None /\ pre.value # <<>>
                                THEN pre.value \o <<"/">> \o name
                                ELSE name])

\* Variant: a selector that fails gives the selector's default.
htmy_select_defaulting(selector, error, req) ==
    IF isinstance_RequestComponentSelector(selector)
    THEN LET r == get_component(selector, req, error).out IN
         IF r.kind = "raise" /\ isinstance(r.value, {"KeyError"}) /\ selector.default # None
         THEN Returned(selector.default)
         ELSE r
    ELSE Returned(selector)

\* The first statement of the render functions HTMY makes: the component factory.
htmy_select(selector, error, req) ==
    IF isinstance_RequestComponentSelector(selector)
    THEN get_component(selector, req, error).out
    ELSE Returned(selector)

\* The selection a render function starts with.  A plain render function has none.
select(fn, result, req) ==
    LET error == IF fn.error_renderer THEN result ELSE None IN
    CASE fn.type = "HTMY" -> htmy_select(fn.selector, error, req)
      [] fn.type = "Jinja" -> resolve_template_name(fn.selector, error, fn.prefix, req)
      [] OTHER -> Returned(None)

\* Selectors of the HTMY decorators: a component factory, or a ComponentHeader
\* whose error argument is one of filters.
HTMYSelectors(filters) ==
    {[type |-> "factory"]}
    \cup [type : {"ComponentHeader"}, header : {"x-component"},
          components : {<< << <<"a">>, [type |-> "component", name |-> "Profile_h1"] >> >>},
          error : filters, default : {None, DefaultComponent}, case_sensitive : {FALSE}]

\* Template names: relative to the prefix, or a JinjaPath.
TemplateNames ==
    {[type |-> "str", value |-> <<"/", "t">>], [type |-> "JinjaPath", value |-> <<"t">>]}

\* Selectors of the Jinja decorators: a template name, or a TemplateHeader
\* (its templates are written components, as in ComponentHeader).
JinjaSelectors(filters) ==
    TemplateNames
    \cup [type : {"TemplateHeader"}, header : {"x-component"},
          components : {<< << <<"a">>, [type |-> "str", value |-> <<"/", "t">>] >> >>},
          error : filters,
          default : {None, [type |-> "JinjaPath", value |-> <<"t">>]},
          case_sensitive : {FALSE}]

\* The prefix argument of the Jinja decorators.
Prefixes == {None, [type |-> "str", value |-> <<"p">>]}

\* The render functions given to hx() and page().  HTMY makes a sync function
\* for streaming and an async one otherwise; Jinja makes a sync one and does
\* not stream; a function written by the user is sync when it streams.
RenderFunctions(stream, error_renderer, prefix) ==
    LET filters == IF error_renderer THEN ErrorFilters ELSE {{}} IN
    [type : {"HTMY"}, selector : HTMYSelectors(filters), error_renderer : {error_renderer},
     prefix : {None}, is_async : {~stream}]
    \cup (IF stream THEN {}
          ELSE [type : {"Jinja"}, selector : JinjaSelectors(filters),
                error_renderer : {error_renderer}, prefix : {prefix}, is_async : {FALSE}])
    \cup [type : {"function"}, selector : {None}, error_renderer : {error_renderer},
          prefix : {None}, is_async : IF stream THEN {FALSE} ELSE BOOLEAN]

\* Routes decorated by HTMY.hx / HTMY.page / Jinja.hx / Jinja.page, or by hx / page
\* with the user's own render functions.
AdapterRoutes ==
    {r \in [kind : {"hx", "page"}, no_data : {FALSE}, stream : BOOLEAN,
            render : UNION {RenderFunctions(st, FALSE, pre) : st \in BOOLEAN, pre \in Prefixes},
            render_error : {None} \cup UNION {RenderFunctions(st, TRUE, pre) :
                                                st \in BOOLEAN, pre \in Prefixes}] :
        /\ r.render \in RenderFunctions(r.stream, FALSE, r.render.prefix)
        /\ r.render_error # None =>
            /\ r.render_error \in RenderFunctions(r.stream, TRUE, r.render.prefix)
            /\ r.render_error.type = r.render.type}

\* Requests with or without HX-Request: true, with or without the selector's header.
AdapterRequests ==
    {[type |-> "Request", headers |-> h] :
        h \in UNION {[d -> {"true"}] : d \in SUBSET {"hx-request"}}}
    \cup {[type |-> "Request",
           headers |-> [k \in d \cup {"x-component"} |->
                            IF k = "x-component" THEN v ELSE "true"]] :
            d \in SUBSET {"hx-request"}, v \in {<<"A">>, <<"b">>}}

\* Handlers: sync or async functions that return data or raise.
AdapterHandlers ==
    [target : {0}, status_code : {NoneStatus}, header : {FALSE}, background : {FALSE},
     out : {Returned(Data)} \cup {Raised(Exc(t)) : t \in {"DataError", "KeyError"}},
     is_async : BOOLEAN]

InitAdapter ==
    /\ route \in AdapterRoutes
    /\ request \in AdapterRequests
    /\ kwargs \in {<<IntArg>>, <<FreshResponse>>}
    /\ handler \in AdapterHandlers
    /\ renders \in {"str", "raise"}
    /\ pc = "start"
    /\ dep = None
    /\ funcCall = None
    /\ funcOut = Pending
    /\ renderCall = None
    /\ renderOut = Pending
    /\ outcome = Pending
    /\ calls = NoCalls
    /\ prev = [request |-> None, outcome |-> Pending]
    /\ adapter_idle
    /\ selector_idle
    /\ context_idle
    /\ htmy_idle

\* One call, as trace keeps it.
Call(fn, is_async, thread) == [fn |-> fn, is_async |-> is_async, thread |-> thread]

\* await execute_maybe_sync_func(func, *args, **kwargs): the handler runs.
execute_func ==
    /\ pc = "func"
    /\ funcCall' = call_func(kwargs)
    /\ kwargs' = mutate(kwargs, handler)
    /\ funcOut' = handler.out
    /\ calls' = [calls EXCEPT !.func = @ + 1]
    /\ trace' = Append(trace, Call("func", handler.is_async,
                                   execute_maybe_sync_func(handler.is_async)))
    /\ pc' = "after_func"
    /\ UNCHANGED <<route, request, handler, renders, dep, renderCall, renderOut,
                   outcome, prev, adapter, decorator, target, sent, selector_vars,
                   context_vars, htmy_vars>>

\* The function the wrapper calls as renderer.
render_function(rt, call) == IF call.fn = "render" THEN rt.render ELSE rt.render_error

\* The render function is called and resolves its selector.
render_select ==
    /\ pc = "renderer"
    /\ LET fn == render_function(route, renderCall)
           r == select(fn, renderCall.result, renderCall.request) IN
        /\ trace' = Append(trace, Call(renderCall.fn, fn.is_async,
                                       renderer_thread(route.stream, fn)))
        /\ calls' = [calls EXCEPT ![renderCall.fn] = @ + 1]
        /\ IF r.kind = "raise"
           THEN /\ renderOut' = r
                /\ pc' = "after_render"
                /\ UNCHANGED target
           ELSE /\ target' = r.value
                /\ pc' = "render_body"
                /\ UNCHANGED renderOut
    /\ UNCHANGED <<route, request, kwargs, handler, renders, dep, funcCall, funcOut, renderCall,
                   outcome, prev, adapter, decorator, sent, selector_vars, context_vars,
                   htmy_vars>>

\* The rest of the render function.  When streaming it returns the iterator
\* of the chunks and nothing is rendered yet; otherwise the component or the
\* template is rendered, which gives a string or fails.
render_body ==
    /\ pc = "render_body"
    /\ calls' = [calls EXCEPT !.component = @ + 1]
    /\ renderOut' =
        IF route.stream
        THEN Returned([type |-> "AsyncIterator", fn |-> renderCall.fn, of |-> renderCall.result])
        ELSE IF renders = "raise" THEN Raised(Exc("RenderError"))
        ELSE Returned([type |-> "str", fn |-> renderCall.fn, of |-> renderCall.result])
    /\ pc' = "after_render"
    /\ UNCHANGED <<route, request, kwargs, handler, renders, dep, funcCall, funcOut, renderCall,
                   outcome, prev, adapter, decorator, target, trace, sent, selector_vars,
                   context_vars, htmy_vars>>

\* The transport iterates the body of the StreamingResponse the wrapper returned:
\* the chunks are rendered now, or the rendering fails in the middle of the response.
transport ==
    /\ pc = "done"
    /\ outcome.kind = "return"
    /\ outcome.value.type = "StreamingResponse"
    /\ sent' = IF renders = "raise" THEN <<[type |-> "error"]>>
               ELSE <<[type |-> "chunk", of |-> outcome.value.body.of]>>
    /\ pc' = "sent"
    /\ UNCHANGED <<route, request, kwargs, handler, renders, dep, funcCall, funcOut, renderCall,
                   renderOut, outcome, calls, prev, adapter, decorator, target, trace,
                   selector_vars, context_vars, htmy_vars>>

NextAdapter ==
    \/ Depends
    \/ hx_wrapper_enter
    \/ page_wrapper_enter
    \/ execute_func
    \/ hx_wrapper_result
    \/ page_wrapper_result
    \/ render_select
    \/ render_body
    \/ hx_wrapper_respond
    \/ page_wrapper_respond
    \/ transport

SpecAdapter == InitAdapter /\ [][NextAdapter]_vars

-----------------------------------------------------------------------------
(* fasthx/htmy.py and fasthx/jinja.py: the decorators HTMY.hx, HTMY.page,   *)
(* Jinja.hx and Jinja.page, which build the arguments of hx() and page()    *)

\* A bool argument; None stands for an argument that was not given.
Bool(b) == [type |-> "bool", value |-> b]

\* hx(render, no_data=, render_error=, stream=): the decorated route.
hx(render, render_error, no_data, stream) ==
    [kind |-> "hx", no_data |-> no_data, stream |-> stream,
     render |-> render, render_error |-> render_error]

\* page(render, render_error=, stream=): the decorated route.
page(render, render_error, stream) ==
    [kind |-> "page", no_data |-> FALSE, stream |-> stream,
     render |-> render, render_error |-> render_error]

\* _default_component_selector: the route's result is the component.
default_component_selector == [type |-> "factory", name |-> "_default_component_selector"]

\* is_streaming_renderer(self.renderer)
is_streaming_renderer(htmy_renderer) == htmy_renderer.streaming

\* Variant: the stream argument of the decorator is not looked at.
should_stream_of_instance(this, stream) == this.stream

\* should_stream = self.stream if stream is None else stream
should_stream(this, stream) == IF stream = None THEN this.stream ELSE stream.value

\* Variant: the argument of the decorator alone decides.
no_data_of_decorator(this, no_data) == no_data

\* no_data=self.no_data or no_data
no_data_or(this, no_data) == this.no_data \/ no_data

\* HTMY._make_render_function and HTMY._make_error_render_function: with a
\* streaming_renderer, the sync streaming_render that returns an AsyncIterator;
\* with a renderer, the async render that returns a str.
HTMY_make_render_function(component_selector, error_renderer, keyword) ==
    [type |-> "HTMY", selector |-> component_selector, error_renderer |-> error_renderer,
     prefix |-> None,
     is_async |-> (keyword = "renderer"),
     returns |-> IF keyword = "streaming_renderer" THEN "AsyncIterator" ELSE "str"]

\* Jinja._make_render_function: a sync function that returns a str.
Jinja_make_render_function(template, prefix, error_renderer) ==
    [type |-> "Jinja", selector |-> template, error_renderer |-> error_renderer,
     prefix |-> prefix, is_async |-> FALSE, returns |-> "str"]

\* HTMY.hx
HTMY_hx(this, args) ==
    LET selector == IF args.component_selector = None THEN default_component_selector
                    ELSE args.component_selector IN
    IF should_stream(this, args.stream) /\ is_streaming_renderer(this.renderer)
    THEN hx(HTMY_make_render_function(selector, FALSE, "streaming_renderer"),
            IF args.error_component_selector = None THEN None
            ELSE HTMY_make_render_function(args.error_component_selector, TRUE,
                                           "streaming_renderer"),
            no_data_or(this, args.no_data), TRUE)
    ELSE hx(HTMY_make_render_function(selector, FALSE, "renderer"),
            IF args.error_component_selector = None THEN None
            ELSE HTMY_make_render_function(args.error_component_selector, TRUE, "renderer"),
            no_data_or(this, args.no_data), FALSE)

\* HTMY.page
HTMY_page(this, args) ==
    LET selector == IF args.component_selector = None THEN default_component_selector
                    ELSE args.component_selector IN
    IF should_stream(this, args.stream) /\ is_streaming_renderer(this.renderer)
    THEN page(HTMY_make_render_function(selector, FALSE, "streaming_renderer"),
              IF args.error_component_selector = None THEN None
              ELSE HTMY_make_render_function(args.error_component_selector, TRUE,
                                             "streaming_renderer"),
              TRUE)
    ELSE page(HTMY_make_render_function(selector, FALSE, "renderer"),
              IF args.error_component_selector = None THEN None
              ELSE HTMY_make_render_function(args.error_component_selector, TRUE, "renderer"),
              FALSE)

\* Jinja.hx
Jinja_hx(this, args) ==
    hx(Jinja_make_render_function(args.template, args.prefix, FALSE),
       IF args.error_template = None THEN None
       ELSE Jinja_make_render_function(args.error_template, args.prefix, TRUE),
       no_data_or(this, args.no_data), FALSE)

\* Jinja.page
Jinja_page(this, args) ==
    page(Jinja_make_render_function(args.template, args.prefix, FALSE),
         IF args.error_template = None THEN None
         ELSE Jinja_make_render_function(args.error_template, args.prefix, TRUE),
         FALSE)

\* HTMY(renderer, no_data=, stream=): the renderer streams or does not.
HTMYInstances ==
    [type : {"HTMY"}, renderer : [streaming : BOOLEAN], no_data : BOOLEAN, stream : BOOLEAN]

\* Jinja(templates, no_data=)
JinjaInstances == [type : {"Jinja"}, no_data : BOOLEAN]

\* A ComponentHeader of HTMY with the error classes it accepts.
HTMYHeader(filter) ==
    [type |-> "ComponentHeader", header |-> "x-component",
     components |-> << << <<"a">>, [type |-> "component", name |-> "Profile_h1"] >> >>,
     error |-> filter, default |-> DefaultComponent, case_sensitive |-> FALSE]

\* The arguments of HTMY.hx and HTMY.page (page has no no_data).
HTMYDecorators ==
    {d \in [method : {"hx", "page"},
            component_selector : {None, [type |-> "factory", name |-> "UserList"]},
            error_component_selector : {None, HTMYHeader({"DataError"})},
            no_data : BOOLEAN,
            stream : {None, Bool(TRUE), Bool(FALSE)}] :
        d.method = "page" => ~d.no_data}

\* Template names: with no, one or two leading slashes, plain or JinjaPath.
JinjaStr(value) == [type |-> "str", value |-> value]

JinjaPath(value) == [type |-> "JinjaPath", value |-> value]

\* A TemplateHeader: the key a gives a plain name, the key b a JinjaPath, the
\* default is a JinjaPath or there is none.
JinjaHeader(filter, default) ==
    [type |-> "TemplateHeader", header |-> "x-component",
     components |-> << << <<"a">>, JinjaStr(<<"/", "t">>) >>,
                       << <<"b">>, JinjaPath(<<"/", "e">>) >> >>,
     error |-> filter, default |-> default, case_sensitive |-> FALSE]

JinjaTemplates ==
    {JinjaStr(<<"t">>), JinjaStr(<<"/", "/", "t">>), JinjaPath(<<"/", "t">>)}
    \cup {JinjaHeader({}, default) : default \in {None, JinjaPath(<<"d">>)}}

JinjaErrorTemplates ==
    {None, JinjaStr(<<"/", "e">>)}
    \cup {JinjaHeader(filter, JinjaStr(<<"d">>)) : filter \in ErrorFilters}

\* The prefix argument: not given, empty, or a directory.
JinjaPrefixes == {None, JinjaStr(<<>>), JinjaStr(<<"p">>)}

\* The arguments of Jinja.hx and Jinja.page (page has no no_data).
JinjaDecorators ==
    {d \in [method : {"hx", "page"}, template : JinjaTemplates,
            error_template : JinjaErrorTemplates, no_data : BOOLEAN,
            prefix : JinjaPrefixes] :
        d.method = "page" => ~d.no_data}

\* Requests with or without HX-Request: true; the selector's header is absent,
\* names a key in another case, or names no key.
DecoratedRequests ==
    {[type |-> "Request",
      headers |-> [k \in d |-> IF k = "hx-request" THEN "true" ELSE v]] :
        d \in SUBSET {"hx-request", "x-component"}, v \in {<<"A">>, <<"b">>, <<"c">>}}

\* Sync handlers that return data or raise.
DecoratedHandlers ==
    [target : {0}, status_code : {NoneStatus}, header : {FALSE}, background : {FALSE},
     out : {Returned(Data)} \cup {Raised(Exc(t)) : t \in {"DataError", "KeyError"}},
     is_async : {FALSE}]

InitDecorator ==
    /\ \/ adapter \in HTMYInstances /\ decorator \in HTMYDecorators
       \/ adapter \in JinjaInstances /\ decorator \in JinjaDecorators
    /\ route = None
    /\ request \in DecoratedRequests
    /\ kwargs = <<FreshResponse>>
    /\ handler \in DecoratedHandlers
    /\ renders = "str"
    /\ pc = "decorate"
    /\ dep = None
    /\ funcCall = None
    /\ funcOut = Pending
    /\ renderCall = None
    /\ renderOut = Pending
    /\ outcome = Pending
    /\ calls = NoCalls
    /\ prev = [request |-> None, outcome |-> Pending]
    /\ target = None
    /\ trace = <<>>
    /\ sent = <<>>
    /\ selector_idle
    /\ context_idle
    /\ htmy_idle

\* The module is imported: the decorator is called and the route is made.
decorate(made) ==
    /\ pc = "decorate"
    /\ route' = made
    /\ pc' = "start"
    /\ UNCHANGED <<request, kwargs, handler, renders, dep, funcCall, funcOut, renderCall,
                   renderOut, outcome, calls, prev, adapter_vars, selector_vars,
                   context_vars, htmy_vars>>

HTMY_hx_call ==
    /\ adapter.type = "HTMY" /\ decorator.method = "hx"
    /\ decorate(HTMY_hx(adapter, decorator))

HTMY_page_call ==
    /\ adapter.type = "HTMY" /\ decorator.method = "page"
    /\ decorate(HTMY_page(adapter, decorator))

Jinja_hx_call ==
    /\ adapter.type = "Jinja" /\ decorator.method = "hx"
    /\ decorate(Jinja_hx(adapter, decorator))

Jinja_page_call ==
    /\ adapter.type = "Jinja" /\ decorator.method = "page"
    /\ decorate(Jinja_page(adapter, decorator))

NextDecorator ==
    \/ HTMY_hx_call
    \/ HTMY_page_call
    \/ Jinja_hx_call
    \/ Jinja_page_call
    \/ Depends
    \/ hx_wrapper_enter
    \/ page_wrapper_enter
    \/ execute_func
    \/ hx_wrapper_result
    \/ page_wrapper_result
    \/ render_select
    \/ render_body
    \/ hx_wrapper_respond
    \/ page_wrapper_respond
    \/ transport

SpecDecorator == InitDecorator /\ [][NextDecorator]_vars

-----------------------------------------------------------------------------
(* fasthx/jinja.py: JinjaContext *)

\* The key a collection is wrapped under.
items_key == <<"i", "t", "e", "m", "s">>

\* Keys of dicts and names of attributes, each the sequence of its characters.
Names == {<<"n">>, <<"_", "n">>, items_key}

\* key.startswith("_")
startswith_underscore(key) == key # <<>> /\ key[1] = "_"

\* What is stored under a key or in an attribute.
Stored == {[type |-> "str", value |-> v] : v \in {"Billy", "Lucy"}}

\* The items of a dict, or the attributes of an object: at most MaxItems of them.
Items ==
    {d \in UNION {[1..n -> Names \X Stored] : n \in 0..MaxItems} :
        \A i, j \in 1..Len(d) : d[i][1] = d[j][1] => i = j}

\* dict.keys(), in order.
keys(items) == [i \in 1..Len(items) |-> items[i][1]]

key_set(items) == {items[i][1] : i \in 1..Len(items)}

\* dict.update(other), the first n items of other done.
RECURSIVE update(_, _, _)
update(items, other, n) ==
    IF n = 0 THEN items
    ELSE setitem(update(items, other, n - 1), other[n][1], other[n][2])

\* A dict object; id tells the objects apart ("new": made by the factory).
Dict(id, items) == [type |-> "dict", id |-> id, items |-> items]

isinstance_dict(obj) == obj.type = "dict"

\* isinstance(obj, Collection): sized, iterable and a container.
isinstance_Collection(obj) ==
    \/ obj.type \in {"dict", "list", "tuple", "set", "str"}
    \/ obj.type = "object" /\ obj.collection

hasattr_dict(obj) == obj.type = "object" /\ obj.has_dict

hasattr_slots(obj) == obj.type = "object" /\ obj.has_slots

\* getattr(obj, key): from __dict__, else from the slot if it was assigned.
getattr(obj, key) ==
    IF obj.has_dict /\ has_key(obj.dict, key) THEN Returned(getitem(obj.dict, key))
    ELSE IF has_key(obj.values, key) THEN Returned(getitem(obj.values, key))
    ELSE Raised(Exc("AttributeError"))

\* {key: getattr(obj, key) for key in object_keys if not key.startswith("_")},
\* the first n keys done.
RECURSIVE comprehension(_, _, _)
comprehension(obj, object_keys, n) ==
    IF n = 0 THEN Returned(<<>>)
    ELSE LET done == comprehension(obj, object_keys, n - 1)
             key == object_keys[n] IN
         IF done.kind = "raise" \/ startswith_underscore(key) THEN done
         ELSE LET attr == getattr(obj, key) IN
              IF attr.kind = "raise" THEN attr
              ELSE Returned(setitem(done.value, key, attr.value))

\* The dict the comprehension makes, or the error of a getattr.
unpack_attributes(obj, object_keys) ==
    LET made == comprehension(obj, object_keys, Len(object_keys)) IN
    IF made.kind = "raise" THEN made ELSE Returned(Dict("new", made.value))

\* Variant: __slots__ is looked at before __dict__.
unpack_object_slots_first(obj) ==
    IF isinstance_dict(obj) THEN Returned(obj)
    ELSE IF isinstance_Collection(obj) THEN Returned(Dict("new", << <<items_key, obj>> >>))
    ELSE IF hasattr_slots(obj) THEN unpack_attributes(obj, obj.slots)
    ELSE IF hasattr_dict(obj) THEN unpack_attributes(obj, keys(obj.dict))
    ELSE IF obj = None THEN Returned(Dict("new", <<>>))
    ELSE Raised(Exc("ValueError"))

\* JinjaContext.unpack_object
unpack_object(obj) ==
    IF isinstance_dict(obj) THEN Returned(obj)
    ELSE IF isinstance_Collection(obj) THEN Returned(Dict("new", << <<items_key, obj>> >>))
    ELSE IF hasattr_dict(obj) THEN unpack_attributes(obj, keys(obj.dict))
    ELSE IF hasattr_slots(obj) THEN unpack_attributes(obj, obj.slots)
    ELSE IF obj = None THEN Returned(Dict("new", <<>>))
    ELSE Raised(Exc("ValueError"))

\* JinjaContext.unpack_result
unpack_result(result, context) == unpack_object(result)

\* Variant: a key that both mappings have is not an error, the later value wins.
overlapping_never(a, b) == FALSE

\* len(set(a.keys()) & set(b.keys())) > 0
overlapping(a, b) == Cardinality(key_set(a.items) \cap key_set(b.items)) > 0

\* JinjaContext.unpack_result_with_route_context: how it ends and the
\* route_context it leaves.
unpack_result_with_route_context(result, context) ==
    LET unpacked == unpack_result(result, context) IN
    IF unpacked.kind = "raise" THEN [out |-> unpacked, route_context |-> context]
    ELSE IF overlapping(unpacked.value, context)
    THEN [out |-> Raised(Exc("ValueError")), route_context |-> context]
    ELSE LET updated == [context EXCEPT
                            !.items = update(@, unpacked.value.items,
                                             Len(unpacked.value.items))] IN
         [out |-> Returned(updated), route_context |-> updated]

\* A converter of use_converters is called; None stands for no converter.
convert(converter, arg) ==
    CASE converter = None -> Returned(Dict("new", <<>>))
      [] converter.type = "unpack_object" -> unpack_object(arg)
      [] OTHER -> Returned(Dict("new", converter.returns))

\* make_jinja_context, the factory JinjaContext.use_converters returns.
\* rr.update(rc) changes the dict the first converter returned.
make_jinja_context(factory, result, context) ==
    LET rr == convert(factory.convert_route_result, result) IN
    IF rr.kind = "raise" THEN rr
    ELSE LET rc == convert(factory.convert_route_context, context) IN
         IF rc.kind = "raise" THEN rc
         ELSE IF overlapping(rr.value, rc.value) THEN Raised(Exc("ValueError"))
         ELSE Returned([rr.value EXCEPT !.items = update(@, rc.value.items,
                                                         Len(rc.value.items))])

\* Route results: dicts, other collections, objects with __dict__ (some of
\* them collections as well), objects with __slots__ (the last slot may be
\* unassigned), objects with both, None, and an int.
RouteResults ==
    {Dict("route_result", d) : d \in Items}
    \cup {[type |-> t] : t \in {"list", "tuple", "set", "str", "int"}}
    \cup {None}
    \cup [type : {"object"}, collection : BOOLEAN, has_dict : {TRUE}, dict : Items,
          has_slots : {FALSE}, slots : {<<>>}, values : {<<>>}]
    \cup {[type |-> "object", collection |-> FALSE, has_dict |-> FALSE, dict |-> <<>>,
           has_slots |-> TRUE, slots |-> keys(d),
           values |-> SubSeq(d, 1, Len(d) - unassigned)] :
            d \in Items, unassigned \in {0, 1}}
    \cup {[type |-> "object", collection |-> FALSE, has_dict |-> TRUE, dict |-> d,
           has_slots |-> TRUE, slots |-> << <<"n">> >>,
           values |-> << << <<"n">>, [type |-> "str", value |-> "Lucy"] >> >>] :
            d \in {x \in Items : Len(x) <= 1 /\ ~has_key(x, <<"n">>)}}

\* The keyword arguments of the route, as a dict.
RouteContexts == {Dict("route_context", d) : d \in Items}

\* Converters given to use_converters: None, JinjaContext.unpack_object, or a
\* function that returns a dict whatever it is given.
Converters ==
    {None, [type |-> "unpack_object"]}
    \cup {[type |-> "lambda", returns |-> << <<k, [type |-> "str", value |-> "Billy"]>> >>] :
            k \in {<<"n">>, items_key}}

\* The context factories of the module.
ContextFactories ==
    {[type |-> "unpack_result"], [type |-> "unpack_result_with_route_context"]}
    \cup [type : {"use_converters"}, convert_route_result : Converters,
          convert_route_context : Converters]

InitContext ==
    /\ make_context \in ContextFactories
    /\ route_result \in RouteResults
    /\ route_context \in RouteContexts
    /\ jinja_context = Pending
    /\ jc_pc = "call"
    /\ cache = <<>>
    /\ wrap_as_calls = <<>>
    /\ dispatch_idle
    /\ selector_idle
    /\ adapter_idle
    /\ htmy_idle

\* make_context is JinjaContext.unpack_result.
unpack_result_call ==
    /\ jc_pc = "call"
    /\ make_context.type = "unpack_result"
    /\ jinja_context' = unpack_result(route_result, route_context)
    /\ jc_pc' = "done"
    /\ UNCHANGED <<make_context, route_result, route_context, cache, wrap_as_calls,
                   dispatch_vars, selector_vars, adapter_vars, htmy_vars>>

\* make_context is JinjaContext.unpack_result_with_route_context.
unpack_result_with_route_context_call ==
    /\ jc_pc = "call"
    /\ make_context.type = "unpack_result_with_route_context"
    /\ LET r == unpack_result_with_route_context(route_result, route_context) IN
        /\ jinja_context' = r.out
        /\ route_context' = r.route_context
    /\ jc_pc' = "done"
    /\ UNCHANGED <<make_context, route_result, cache, wrap_as_calls, dispatch_vars,
                   selector_vars, adapter_vars, htmy_vars>>

\* make_context was made by JinjaContext.use_converters.
make_jinja_context_call ==
    /\ jc_pc = "call"
    /\ make_context.type = "use_converters"
    /\ LET out == make_jinja_context(make_context, route_result, route_context) IN
        /\ jinja_context' = out
        /\ route_result' = IF out.kind = "return" /\ out.value.id = "route_result"
                           THEN out.value ELSE route_result
    /\ jc_pc' = "done"
    /\ UNCHANGED <<make_context, route_context, cache, wrap_as_calls, dispatch_vars,
                   selector_vars, adapter_vars, htmy_vars>>

NextContext ==
    \/ unpack_result_call
    \/ unpack_result_with_route_context_call
    \/ make_jinja_context_call

SpecContext == InitContext /\ [][NextContext]_vars

-----------------------------------------------------------------------------
(* fasthx/jinja.py: JinjaContext.wrap_as, a classmethod behind lru_cache *)

\* The maxsize of functools.lru_cache when the decorator is given no argument.
maxsize == 128

\* A str object.
str(chars) == [type |-> "str", value |-> chars]

\* The keys wrap_as is called with.
WrapKeys == {str(<<"r">>), str(<<"c">>)}

\* The calls of JinjaContext.wrap_as: wrap_as(rk), wrap_as(rk, ck) and
\* wrap_as(rk, context_key=ck), ck a key or None.
WrapAsCalls ==
    {[args |-> <<rk>>, kwargs |-> <<>>] : rk \in WrapKeys}
    \cup {[args |-> <<rk, ck>>, kwargs |-> <<>>] :
            rk \in WrapKeys, ck \in {None, str(<<"c">>)}}
    \cup {[args |-> <<rk>>, kwargs |-> << <<"context_key", ck>> >>] :
            rk \in WrapKeys, ck \in {None, str(<<"c">>)}}

\* The parameters of wrap_as as the call binds them; context_key defaults to None.
wrap_as_parameters(call) ==
    [result_key |-> call.args[1],
     context_key |-> IF Len(call.args) >= 2 THEN call.args[2]
                     ELSE IF has_key(call.kwargs, "context_key")
                     THEN getitem(call.kwargs, "context_key")
                     ELSE None]

\* The key lru_cache files a call under: the positional arguments, then the
\* keyword arguments, as the call was written.
make_key(call) == <<call.args, call.kwargs>>

\* The body of wrap_as: the factory it makes, or the ValueError; id tells the
\* factory objects apart.
wrap_as(call, id) ==
    LET p == wrap_as_parameters(call) IN
    IF p.result_key = p.context_key THEN Raised(Exc("ValueError"))
    ELSE Returned([type |-> "wrap", id |-> id, result_key |-> p.result_key,
                   context_key |-> p.context_key])

\* The index of the entry of a key in the cache, 0 when it has none.
cached(entries, key) ==
    IF \E i \in 1..Len(entries) : entries[i][1] = key
    THEN CHOOSE i \in 1..Len(entries) : entries[i][1] = key
    ELSE 0

\* Variant: no cache, every call runs the body.
lru_cache_wrapper_uncached(entries, call, id) ==
    [out |-> wrap_as(call, id), cache |-> entries]

\* The wrapper lru_cache puts around wrap_as.  A hit returns the stored object
\* and makes its entry the most recently used; a miss runs the body, stores
\* what it returned (an error is not stored) and, the cache being full, drops
\* the least recently used entry.
lru_cache_wrapper(entries, call, id) ==
    LET key == make_key(call)
        at == cached(entries, key)
    IN
    IF at # 0
    THEN [out |-> Returned(entries[at][2]),
          cache |-> Append([i \in 1..(Len(entries) - 1) |->
                               IF i < at THEN entries[i] ELSE entries[i + 1]],
                           entries[at])]
    ELSE LET made == wrap_as(call, id) IN
         IF made.kind = "raise" THEN [out |-> made, cache |-> entries]
         ELSE [out |-> made,
               cache |-> Append(IF Len(entries) >= maxsize THEN Tail(entries)
                                ELSE entries,
                                <<key, made.value>>)]

\* wrap, the factory wrap_as returns.
wrap(factory, result, context) ==
    LET only == << <<factory.result_key.value, result>> >> IN
    Returned(Dict("new", IF factory.context_key # None
                         THEN setitem(only, factory.context_key.value, context)
                         ELSE only))

\* The route results and route contexts the factories are called with.
WrapResults == {None, [type |-> "int"]} \cup {Dict("route_result", d) : d \in {<<>>}}

WrapContexts ==
    {Dict("route_context", d) : d \in {x \in Items : Len(x) <= 1 /\ ~has_key(x, items_key)}}

InitWrapAs ==
    /\ make_context = None
    /\ route_result \in WrapResults
    /\ route_context \in WrapContexts
    /\ jinja_context = Pending
    /\ jc_pc = "wrap_as"
    /\ cache = <<>>
    /\ wrap_as_calls = <<>>
    /\ dispatch_idle
    /\ selector_idle
    /\ adapter_idle
    /\ htmy_idle

\* JinjaContext.wrap_as is called.
wrap_as_call(call) ==
    /\ jc_pc = "wrap_as"
    /\ Len(wrap_as_calls) < MaxCalls
    /\ LET r == lru_cache_wrapper(cache, call, Len(wrap_as_calls) + 1) IN
        /\ cache' = r.cache
        /\ wrap_as_calls' = Append(wrap_as_calls, [call |-> call, out |-> r.out])
    /\ UNCHANGED <<make_context, route_result, route_context, jinja_context, jc_pc,
                   dispatch_vars, selector_vars, adapter_vars, htmy_vars>>

\* A factory that wrap_as returned is called as make_context.
wrap_call ==
    /\ jc_pc = "wrap_as"
    /\ \E i \in 1..Len(wrap_as_calls) :
        /\ wrap_as_calls[i].out.kind = "return"
        /\ make_context' = wrap_as_calls[i].out.value
        /\ jinja_context' = wrap(wrap_as_calls[i].out.value, route_result, route_context)
    /\ jc_pc' = "done"
    /\ UNCHANGED <<route_result, route_context, cache, wrap_as_calls, dispatch_vars,
                   selector_vars, adapter_vars, htmy_vars>>

NextWrapAs ==
    \/ \E call \in WrapAsCalls : wrap_as_call(call)
    \/ wrap_call

SpecWrapAs == InitWrapAs /\ [][NextWrapAs]_vars

-----------------------------------------------------------------------------
(* fasthx/htmy.py: HTMY._make_render_context *)

\* CurrentRequest.to_context(request): {Request: request}; the key is the class.
CurrentRequest_to_context(req) == << <<"Request", req>> >>

\* RouteParams(route_params).to_context(): {RouteParams: self}
RouteParams_to_context(route_params) ==
    << <<"RouteParams", [type |-> "RouteParams", params |-> route_params]>> >>

\* The route parameters a caller hands to _make_render_context: the render
\* functions give the context they were called with, render_component gives {}.
route_params_of(call) ==
    IF call.caller = "render_component" THEN <<>> ELSE call.context

\* Variant: a key that is already in the context keeps its value.
run_processor_keeps_earlier(result, made) ==
    update(made, result, Len(result))

\* result.update(cp(request)), made being what the processor returned.
run_processor(result, made) == update(result, made, Len(made))

\* What a request processor returns for a request: a context of its own keys,
\* or one that has a key of an earlier entry.
ProcessorContexts ==
    {<<>>,
     << <<"k", [type |-> "str", value |-> "Billy"]>> >>,
     << <<"k", [type |-> "str", value |-> "Lucy"]>> >>,
     << <<"Request", [type |-> "str", value |-> "Billy"]>> >>,
     << <<"j", [type |-> "str", value |-> "Billy"]>>,
        <<"RouteParams", [type |-> "str", value |-> "Lucy"]>> >>}

\* HTMY(request_processors=[...]); a processor is written as what it returns.
HTMYs ==
    [type : {"HTMY"},
     request_processors : UNION {[1..n -> ProcessorContexts] : n \in 0..MaxProcessors}]

\* The calls of _make_render_context: from a render function, from an error
\* render function (both with the route's keyword arguments), from render_component.
RenderCalls ==
    [caller : {"render", "render_error", "render_component"},
     request : {Request(h) : h \in {"absent", "true"}},
     context : {<<>>, << <<"id", IntArg>> >>}]

InitRenderContext ==
    /\ htmy \in HTMYs
    /\ render_call \in RenderCalls
    /\ render_context = <<>>
    /\ rc_pc = "call"
    /\ rc_i = 0
    /\ dispatch_idle
    /\ selector_idle
    /\ adapter_idle
    /\ context_idle

\* _make_render_context up to the loop: the request, then the route parameters.
make_render_context ==
    /\ rc_pc = "call"
    /\ render_context' =
        LET result == CurrentRequest_to_context(render_call.request)
            params == RouteParams_to_context(route_params_of(render_call)) IN
        update(result, params, Len(params))
    /\ rc_i' = 1
    /\ rc_pc' = "loop"
    /\ UNCHANGED <<htmy, render_call, dispatch_vars, selector_vars, adapter_vars, context_vars>>

\* One turn of the loop over self.request_processors.
request_processor ==
    /\ rc_pc = "loop"
    /\ rc_i <= Len(htmy.request_processors)
    /\ render_context' = run_processor(render_context, htmy.request_processors[rc_i])
    /\ rc_i' = rc_i + 1
    /\ UNCHANGED <<htmy, render_call, rc_pc, dispatch_vars, selector_vars, adapter_vars,
                   context_vars>>

\* return result
return_context ==
    /\ rc_pc = "loop"
    /\ rc_i > Len(htmy.request_processors)
    /\ rc_pc' = "done"
    /\ UNCHANGED <<htmy, render_call, render_context, rc_i, dispatch_vars, selector_vars,
                   adapter_vars, context_vars>>

NextRenderContext ==
    \/ make_render_context
    \/ request_processor
    \/ return_context

SpecRenderContext == InitRenderContext /\ [][NextRenderContext]_vars

-----------------------------------------------------------------------------
(* Properties *)

\* The request carries the fragment marker, the header HX-Request: true.
Marked ==
    /\ "hx-request" \in DOMAIN request.headers
    /\ request.headers["hx-request"] = "true"

\* The request is one the route renders: any request of page, a marked one of hx.
Rendering == route.kind = "page" \/ Marked

\* Position of the side-channel Response, the first Response among the
\* keyword arguments; 0 when there is none.
SideChannel ==
    IF Positions(kwargs) = {} THEN 0
    ELSE CHOOSE i \in Positions(kwargs) : \A j \in Positions(kwargs) : i <= j

\* The wrapper ended by returning a response it built from a renderer's output.
Built == pc = "done" /\ renderCall # None /\ outcome.kind = "return"

\* The renderer returned the HTML: a string, or an iterator of chunks when streaming.
GotHTML == renderOut.kind = "return" /\ renderOut.value.type \in {"str", "AsyncIterator"}

\* The status code the handler left on the side-channel Response, 0 when unset.
SideStatus ==
    IF SideChannel # 0 /\ handler.target = SideChannel THEN handler.status_code ELSE 0

\* The handler raised and a render_error function is configured.
ErrorPath == route.render_error # None /\ funcOut.kind = "raise"

\* The configured error renderer opted into the class of the error e:
\* render_data_error renders DataError; a plain component factory has no
\* filter; a ComponentHeader accepts the instances of its error classes.
Accepts(e) ==
    IF route.render_error.type = "render_data_error" THEN e.type = "DataError"
    ELSE IF route.render_error.selector.type = "factory" THEN TRUE
    ELSE \E c \in route.render_error.selector.error : c \in {e.type, "Exception"}

\* C1: a request without the fragment marker on an hx(no_data=True) route ends
\* with HTTPException(400); the handler, render and render_error are never
\* called, whether or not render_error is configured.
C1_FragmentOnlyRejects ==
    (route.kind = "hx" /\ route.no_data /\ ~Marked) =>
        /\ calls = NoCalls
        /\ pc \in {"start", "wrapper", "done"}
        /\ (pc = "done" =>
                outcome = Raised([type |-> "HTTPException", status_code |-> 400]))

C1_Witness ==
    /\ route.kind = "hx" /\ route.no_data /\ ~Marked
    /\ route.render_error # None /\ handler.out = Raised(Exc("DataError"))
    /\ pc = "done" /\ outcome.kind = "raise"

\* C2: on an hx route, a marked request whose handler returns a value that is
\* no Response makes exactly one renderer call, render(result, context=kwargs,
\* request=the request); when that call returns the HTML, the wrapper returns
\* an HTML response (HTMLResponse, StreamingResponse when streaming, media type
\* text/html) whose body is what the call returned.
C2_FragmentRendered ==
    (/\ route.kind = "hx" /\ Marked
     /\ funcOut.kind = "return" /\ ~isinstance_Response(funcOut.value)
     /\ pc \in {"renderer", "after_render", "done"}) =>
        /\ renderCall = [fn |-> "render", result |-> handler.out.value,
                         context |-> kwargs, request |-> request]
        /\ (pc = "done" => calls.render = 1 /\ calls.render_error = 0)
        /\ ((pc = "done" /\ GotHTML) =>
                /\ outcome.kind = "return"
                /\ outcome.value.type =
                       (IF route.stream THEN "StreamingResponse" ELSE "HTMLResponse")
                /\ outcome.value.media_type = "text/html"
                /\ outcome.value.body = renderOut.value
                /\ renderOut.value.fn = "render"
                /\ renderOut.value.of = handler.out.value)

C2_Witness ==
    /\ route.kind = "hx" /\ Marked /\ funcOut = Returned(Data)
    /\ pc = "done" /\ GotHTML /\ outcome.kind = "return"
    /\ outcome.value.type = "HTMLResponse" /\ Len(kwargs) > 0

\* C3: on an hx route without no_data, a request without the marker never
\* reaches a render function, and the wrapper returns the very value the
\* handler returned.
C3_DataForNonFragment ==
    (route.kind = "hx" /\ ~route.no_data /\ ~Marked) =>
        /\ calls.render = 0 /\ calls.render_error = 0 /\ calls.component = 0
        /\ pc \notin {"renderer", "after_render"}
        /\ ((pc = "done" /\ handler.out.kind = "return") =>
                outcome = Returned(handler.out.value))

C3_Witness ==
    /\ route.kind = "hx" /\ ~route.no_data /\ ~Marked
    /\ "hx-request" \in DOMAIN request.headers
    /\ pc = "done" /\ outcome = Returned(Data) /\ calls.func = 1

\* C4: a page route gives the same outcome to two requests that differ only
\* in the HX-Request header; it is given the request itself, renders handler
\* results with render and, when render_error is configured, handler errors
\* with render_error.
C4_PageIgnoresMarker ==
    (route.kind = "page" /\ pc = "done") =>
        /\ dep = request
        /\ (prev.request # None => outcome = prev.outcome)
        /\ ((funcOut.kind = "return" /\ ~isinstance_Response(funcOut.value)) =>
                calls.render = 1 /\ calls.render_error = 0 /\ renderCall.fn = "render")
        /\ (ErrorPath =>
                calls.render = 0 /\ calls.render_error = 1
                /\ renderCall.fn = "render_error")

C4_Witness ==
    /\ route.kind = "page" /\ pc = "done"
    /\ prev.request # None /\ prev.request.headers = NoHeaders /\ Marked
    /\ Built /\ outcome = prev.outcome

\* C5: get_hx_request gives the request itself exactly when the HX-Request
\* header is present with the value "true", and None for any other value and
\* for a request without the header; it always gives one of the two.
C5_Classifier ==
    (route.kind = "hx" /\ pc # "start") =>
        dep = (IF Marked THEN request ELSE None)

C5_Witness ==
    /\ route.kind = "hx" /\ pc = "wrapper"
    /\ "hx-request" \in DOMAIN request.headers /\ request.headers["hx-request"] = "TRUE"
    /\ dep = None

\* C6: on an hx route, when the handler raises and either render_error is None
\* or the request has no marker, the wrapper raises the same error and neither
\* render nor render_error is called.
C6_ErrorPropagates ==
    (/\ route.kind = "hx" /\ funcOut.kind = "raise"
     /\ (route.render_error = None \/ ~Marked)) =>
        /\ calls.render = 0 /\ calls.render_error = 0 /\ calls.component = 0
        /\ pc \in {"after_func", "done"}
        /\ (pc = "done" => outcome = Raised(handler.out.value))

C6_Witness ==
    /\ route.kind = "hx" /\ ~Marked /\ ErrorPath /\ Accepts(funcOut.value)
    /\ pc = "done" /\ outcome = Raised(Exc("DataError"))

\* C7 as stated: with render_error configured and a handler error whose class
\* is not accepted, the error is raised again and render_error is never called
\* with it; with an accepted class, the body of the response is what the error
\* renderer returned.
C7_ErrorRendererNeverCalled ==
    /\ ((ErrorPath /\ ~Accepts(funcOut.value)) =>
            /\ calls.render_error = 0
            /\ (pc = "done" => outcome = Raised(handler.out.value)))
    /\ ((ErrorPath /\ Accepts(funcOut.value) /\ Rendering /\ pc = "done" /\ GotHTML) =>
            outcome.kind = "return" /\ outcome.value.body = renderOut.value)

\* C7, amended: on a request the route renders, render_error is called once
\* with the handler's error.  When it does not accept the class of the error it
\* raises that error again before any component is made, and the wrapper ends
\* with the original error.  When it accepts the class and returns the HTML,
\* the body of the response is what it returned and the status code is the one
\* of the side-channel Response, 200 if unset.  On an hx request without the
\* marker render_error is not called and the error is raised again.
C7_ErrorRendererReraises ==
    (ErrorPath /\ pc = "done") =>
        /\ (~Rendering =>
                calls.render_error = 0 /\ outcome = Raised(handler.out.value))
        /\ (Rendering =>
                /\ calls.render_error = 1 /\ calls.render = 0
                /\ renderCall.fn = "render_error"
                /\ renderCall.result = handler.out.value)
        /\ ((Rendering /\ ~Accepts(funcOut.value)) =>
                calls.component = 0 /\ outcome = Raised(handler.out.value))
        /\ ((Rendering /\ Accepts(funcOut.value) /\ GotHTML) =>
                /\ calls.component = 1
                /\ outcome.kind = "return"
                /\ outcome.value.body = renderOut.value
                /\ renderOut.value.fn = "render_error"
                /\ outcome.value.status_code = (IF SideStatus = 0 THEN 200 ELSE SideStatus))

C7_Witness ==
    /\ ErrorPath /\ pc = "done" /\ Marked /\ route.kind = "hx"
    /\ route.render_error.type = "HTMY"
    /\ route.render_error.selector.type = "ComponentHeader"
    /\ route.render_error.selector.error = {"DataError"}
    /\ funcOut = Raised(Exc("ValueError"))
    /\ calls.render_error = 1 /\ outcome = funcOut

\* C8: every response hx or page builds from a renderer's output, buffered or
\* streaming, from render or from render_error, has the status code the
\* handler left on the side-channel Response, and 200 when there is no
\* side-channel Response or its status code is unset.
C8_StatusCode ==
    Built => outcome.value.status_code = (IF SideStatus = 0 THEN 200 ELSE SideStatus)

C8_Witness ==
    /\ Built /\ renderCall.fn = "render_error" /\ route.stream
    /\ handler.status_code = 499 /\ outcome.value.status_code = 499

C10_ResponsePassesThrough ==
    (funcOut.kind = "return" /\ isinstance_Response(funcOut.value)) =>
        /\ calls.render = 0 /\ calls.render_error = 0 /\ calls.component = 0
        /\ pc \in {"after_func", "done"}
        /\ (pc = "done" => outcome = Returned(handler.out.value))

C10_Witness ==
    /\ route.kind = "page" /\ route.stream /\ route.render_error # None
    /\ funcOut = Returned(ReturnedResponse)
    /\ pc = "done" /\ outcome = Returned(ReturnedResponse)

-----------------------------------------------------------------------------
(* Properties of the header-keyed selector (SpecSelector) *)

\* get_component has ended.
SelDone == sel_pc = "done"

\* The error given to get_component is None or of an accepted class.
SelAccepted ==
    \/ sel_error = None
    \/ self.error # {} /\ bases(sel_error.type) \cap self.error # {}

SelHeaderPresent == self.header \in DOMAIN sel_request.headers

SelHeaderValue == sel_request.headers[self.header]

\* The header's value as it is compared with the keys.
SelKey == IF self.case_sensitive THEN SelHeaderValue ELSE lower(SelHeaderValue)

SelKeyError ==
    /\ sel_result.kind = "raise"
    /\ sel_result.value.type = "KeyError"
    /\ "LookupError" \in bases(sel_result.value.type)

\* s is a proper prefix of t.
ProperPrefix(s, t) == Len(s) < Len(t) /\ SubSeq(t, 1, Len(s)) = s

\* C11: get_component called with an error that is not None raises that very
\* error without looking at any header when the selector has no accepted
\* classes or the error is of none of them; the header is looked up exactly
\* when the error is None or accepted.
C11_ErrorRaisedBeforeLookup ==
    SelDone =>
        /\ ~SelAccepted => sel_result = Raised(sel_error) /\ sel_lookups = 0
        /\ SelAccepted => sel_lookups = 1

\* An error of a class outside a configured filter was given with a request
\* whose header names a known key: the error was raised, the header not read.
C11_Witness ==
    /\ SelDone
    /\ sel_error # None
    /\ self.error # {}
    /\ ~SelAccepted
    /\ SelHeaderPresent
    /\ has_key(self.components, SelKey)
    /\ sel_result = Raised(sel_error)
    /\ sel_lookups = 0

\* C12: with the header present (and the error None or accepted) the target
\* is the value stored under the key equal to the case-normalized header
\* value; when no key is equal to it the call fails with KeyError, a
\* LookupError, whether or not a default is configured.
C12_ExactKeyOrKeyError ==
    (SelDone /\ SelAccepted /\ SelHeaderPresent) =>
        IF \E i \in 1..Len(self.components) : self.components[i][1] = SelKey
        THEN \E i \in 1..Len(self.components) :
                /\ self.components[i][1] = SelKey
                /\ sel_result = Returned(self.components[i][2])
        ELSE SelKeyError

\* A default is configured and the header's value is unknown although a key
\* is a proper prefix of it: KeyError.
C12_Witness ==
    /\ SelDone /\ SelAccepted /\ SelHeaderPresent
    /\ self.default # None
    /\ ~has_key(self.components, SelKey)
    /\ \E i \in 1..Len(self.components) : ProperPrefix(self.components[i][1], SelKey)
    /\ SelKeyError

\* C13: with the header absent (and the error None or accepted) get_component
\* returns the configured default, and fails with KeyError, a LookupError,
\* when no default is configured; it never returns None.
C13_DefaultOrKeyError ==
    /\ (SelDone /\ SelAccepted /\ ~SelHeaderPresent) =>
            IF self.default = None THEN SelKeyError
            ELSE sel_result = Returned(self.default)
    /\ SelDone => sel_result # Returned(None)

\* No header, no default, although the mapping has items: KeyError.
C13_Witness ==
    /\ SelDone /\ SelAccepted /\ ~SelHeaderPresent
    /\ self.default = None
    /\ Len(self.components) > 0
    /\ SelKeyError

\* The same request with the header's value replaced.
WithHeaderValue(v) == [sel_request EXCEPT !.headers = [k \in {self.header} |-> v]]

\* C14: case_sensitive unset: every header value that differs from the one
\* sent only in letter case resolves to the same result, and a key written in
\* any case in the constructor's mapping is found by a header value in any
\* case.  case_sensitive set: a header value that is not exactly a key of the
\* mapping, its case included, fails with KeyError.
C14_CaseHandling ==
    (SelDone /\ SelAccepted /\ SelHeaderPresent) =>
        IF ~self.case_sensitive
        THEN /\ \A w \in Strings :
                    lower(w) = lower(SelHeaderValue) =>
                        get_component(self, WithHeaderValue(w), sel_error).out = sel_result
             /\ (\E i \in 1..Len(sel_args.components) :
                    lower(sel_args.components[i][1]) = lower(SelHeaderValue))
                => \E i \in 1..Len(sel_args.components) :
                    /\ lower(sel_args.components[i][1]) = lower(SelHeaderValue)
                    /\ sel_result = Returned(sel_args.components[i][2])
        ELSE (\A i \in 1..Len(sel_args.components) :
                    sel_args.components[i][1] # SelHeaderValue)
             => SelKeyError

\* case_sensitive unset, a key written with a capital letter, the header value
\* in small letters: the key's component is returned.
C14_Witness ==
    /\ SelDone /\ SelAccepted /\ SelHeaderPresent
    /\ ~self.case_sensitive
    /\ \E i \in 1..Len(sel_args.components) :
        /\ sel_args.components[i][1] # lower(sel_args.components[i][1])
        /\ SelHeaderValue = lower(sel_args.components[i][1])
        /\ sel_result = Returned(sel_args.components[i][2])

-----------------------------------------------------------------------------
(* Properties of the adapters' render functions (SpecAdapter) *)

\* The render function the wrapper called.
AdFn == render_function(route, renderCall)

\* The render function has been called and is past its selector.
AdSelected == renderCall # None /\ pc \in {"render_body", "after_render", "done", "sent"}

\* The wrapper has ended.
AdEnded == pc \in {"done", "sent"}

\* The render function asks a header-keyed selector.
AdHeaderSelector ==
    /\ AdFn.type \in {"HTMY", "Jinja"}
    /\ AdFn.selector.type \in {"ComponentHeader", "TemplateHeader"}

\* The error the selector is given: the handler's error in error rendering.
AdError == IF AdFn.error_renderer THEN renderCall.result ELSE None

\* The selector lets the error pass: there is none, or it is of an accepted class.
AdErrorPasses ==
    \/ AdError = None
    \/ AdFn.selector.error # {} /\ bases(AdError.type) \cap AdFn.selector.error # {}

\* The request names no key of the selector, or has no header and there is no default.
AdUnresolvable ==
    LET sel == AdFn.selector
        hs == renderCall.request.headers IN
    IF sel.header \in DOMAIN hs
    THEN \A i \in 1..Len(sel.components) :
            sel.components[i][1] # (IF sel.case_sensitive THEN hs[sel.header]
                                    ELSE lower(hs[sel.header]))
    ELSE sel.default = None

\* The selector of the called render function fails to resolve.
AdSelectionFails == AdSelected /\ AdHeaderSelector /\ AdErrorPasses /\ AdUnresolvable

\* C15 as stated: in every adapter a selector that fails to resolve ends the
\* dispatch with a LookupError, and nothing is rendered.
C15_FailureIsLookupError ==
    (AdSelectionFails /\ AdEnded) =>
        /\ outcome.kind = "raise"
        /\ "LookupError" \in bases(outcome.value.type)
        /\ calls.component = 0

\* C15: a selector that fails to resolve ends the dispatch with an error and
\* nothing is selected or rendered, no default is used: with HTMY the error is
\* the selector's KeyError, a LookupError; with Jinja it is a ValueError.
C15_FailurePropagates ==
    (AdSelectionFails /\ AdEnded) =>
        /\ outcome.kind = "raise"
        /\ target = None
        /\ calls.component = 0
        /\ IF AdFn.type = "Jinja"
           THEN outcome.value.type = "ValueError"
           ELSE outcome.value.type = "KeyError" /\ "LookupError" \in bases("KeyError")

\* Jinja, a TemplateHeader with a default, a header value that is no key:
\* the dispatch ends with ValueError.
C15_Witness ==
    /\ AdSelectionFails /\ AdEnded
    /\ AdFn.type = "Jinja"
    /\ AdFn.selector.default # None
    /\ AdFn.selector.header \in DOMAIN renderCall.request.headers
    /\ outcome = Raised(Exc("ValueError"))

\* C16: in streaming mode the selector is asked inside the wrapper, before the
\* StreamingResponse is made: when it fails (no target, or an error it does not
\* accept) the wrapper raises, no StreamingResponse is returned and nothing is
\* ever sent; whenever a StreamingResponse is returned or a chunk is sent the
\* selector has given its target.
C16_SelectorBeforeStream ==
    (route # None /\ route.stream) =>
        /\ (AdSelected /\ AdHeaderSelector /\ (~AdErrorPasses \/ AdUnresolvable)) =>
                /\ target = None
                /\ sent = <<>>
                /\ pc # "sent"
                /\ pc = "done" => outcome.kind = "raise"
        /\ (outcome.kind = "return" /\ outcome.value.type = "StreamingResponse"
            /\ AdHeaderSelector) =>
                /\ target # None
                /\ AdErrorPasses /\ ~AdUnresolvable
        /\ sent # <<>> =>
                /\ outcome.kind = "return" /\ outcome.value.type = "StreamingResponse"
                /\ AdFn.type = "HTMY" => target # None

\* Streaming with HTMY, a ComponentHeader with a default, a header value that
\* is no key: the wrapper has raised KeyError and nothing was sent.
C16_Witness ==
    /\ route # None /\ route.stream
    /\ pc = "done"
    /\ AdSelectionFails
    /\ AdFn.type = "HTMY"
    /\ AdFn.selector.default # None
    /\ outcome = Raised(Exc("KeyError"))
    /\ sent = <<>>

\* C17 as stated: whatever the mode, a sync handler or render function runs
\* in a worker thread and an async one on the event loop.
C17_SyncNeverOnEventLoop ==
    \A i \in 1..Len(trace) :
        trace[i].thread = IF trace[i].is_async THEN "event_loop" ELSE "threadpool"

\* C17: the handler, and the render function of a route that does not stream,
\* run in a worker thread when they are sync and on the event loop when they
\* are async; the render function of a streaming route, which is sync, runs
\* on the event loop.
C17_Threads ==
    \A i \in 1..Len(trace) :
        IF trace[i].fn # "func" /\ route.stream
        THEN ~trace[i].is_async /\ trace[i].thread = "event_loop"
        ELSE trace[i].thread = IF trace[i].is_async THEN "event_loop" ELSE "threadpool"

\* Not streaming: a sync handler and a sync render function both ran in a
\* worker thread.
C17_Witness ==
    /\ ~route.stream
    /\ Len(trace) = 2
    /\ \A i \in 1..2 : ~trace[i].is_async /\ trace[i].thread = "threadpool"

-----------------------------------------------------------------------------
(* Properties of the Jinja context factories (SpecContext) *)

\* The names in keys that do not start with an underscore.
Public(key_seq) == {key_seq[i] : i \in {j \in 1..Len(key_seq) : key_seq[j][1] # "_"}}

\* The key-value pairs of a dict.
Pairs(items) == {<<items[i][1], items[i][2]>> : i \in 1..Len(items)}

\* The call of JinjaContext.unpack_result has ended.
UnpackDone == jc_pc = "done" /\ make_context.type = "unpack_result"

MergeCall == jc_pc = "call" /\ jc_pc' = "done" /\ make_context.type # "unpack_result"

\* The mapping a merging factory derives from the route result, and the one
\* it derives from the route context.
FromResult ==
    IF make_context.type = "use_converters"
    THEN convert(make_context.convert_route_result, route_result)
    ELSE unpack_object(route_result)

FromContext ==
    IF make_context.type = "use_converters"
    THEN convert(make_context.convert_route_context, route_context)
    ELSE Returned(route_context)

\* C19: unpack_result_with_route_context and the factories of use_converters
\* raise ValueError when the mapping derived from the route result and the
\* one derived from the route context have a key in common, and otherwise
\* return a mapping whose key-value pairs are exactly those of the two.
C19_MergeOrValueError ==
    [][(MergeCall /\ FromResult.kind = "return" /\ FromContext.kind = "return") =>
            IF key_set(FromResult.value.items) \cap key_set(FromContext.value.items) # {}
            THEN jinja_context' = Raised(Exc("ValueError"))
            ELSE /\ jinja_context'.kind = "return"
                 /\ Pairs(jinja_context'.value.items)
                        = Pairs(FromResult.value.items) \cup Pairs(FromContext.value.items)
      ]_vars

\* unpack_result_with_route_context, an object with the attribute n and a
\* route context with the key n: ValueError, the route context left as it was.
C19_Witness ==
    /\ jc_pc = "done"
    /\ make_context.type = "unpack_result_with_route_context"
    /\ route_result.type = "object" /\ ~route_result.collection /\ route_result.has_dict
    /\ has_key(route_result.dict, <<"n">>)
    /\ has_key(route_context.items, <<"n">>)
    /\ jinja_context = Raised(Exc("ValueError"))

-----------------------------------------------------------------------------
(* Properties of the HTMY rendering context (SpecRenderContext) *)

\* The request processors that return the key, by index.
Writers(key) ==
    {i \in 1..Len(htmy.request_processors) : has_key(htmy.request_processors[i], key)}

\* The greatest element of a set of indexes.
Last(indexes) == CHOOSE i \in indexes : \A j \in indexes : j <= i

\* The keys some request processor returns.
ProcessorKeys ==
    UNION {key_set(htmy.request_processors[i]) : i \in 1..Len(htmy.request_processors)}

\* C20: the returned context has the Request key, the RouteParams key and the
\* keys the request processors return, and no other; a key that processors
\* return has the value of the last of them in registration order; otherwise
\* Request has the request and RouteParams the route parameters, which are
\* empty in render_component and the route context in the render functions.
C20_ContextOrder ==
    rc_pc = "done" =>
        /\ key_set(render_context) = {"Request", "RouteParams"} \cup ProcessorKeys
        /\ \A key \in key_set(render_context) :
            getitem(render_context, key) =
                IF Writers(key) # {}
                THEN getitem(htmy.request_processors[Last(Writers(key))], key)
                ELSE IF key = "Request" THEN render_call.request
                ELSE [type |-> "RouteParams",
                      params |-> IF render_call.caller = "render_component" THEN <<>>
                                 ELSE render_call.context]

\* render_component was given a route context, and two processors return
\* the key k with different values: RouteParams is empty and k has the value
\* of the second processor.
C20_Witness ==
    /\ rc_pc = "done"
    /\ render_call.caller = "render_component"
    /\ render_call.context # <<>>
    /\ Len(htmy.request_processors) = 2
    /\ has_key(htmy.request_processors[1], "k")
    /\ has_key(htmy.request_processors[2], "k")
    /\ getitem(htmy.request_processors[1], "k") # getitem(htmy.request_processors[2], "k")
    /\ getitem(render_context, "k") = getitem(htmy.request_processors[2], "k")
    /\ getitem(render_context, "RouteParams").params = <<>>

-----------------------------------------------------------------------------
(* Properties of the dispatch, continued (Spec) *)

\* v is an argument of the handler as FastAPI solves it, not a request.
HandlerArgument(v) == v.type \in {"int"} \cup ResponseTypes

\* C21: the wrapper's keyword arguments are exactly the values FastAPI solved
\* for the handler's own parameters, one for each; the handler is called with
\* them and no positional argument, the render function is given them as
\* context (the very dict, with what the handler did to it) and the injected
\* request as request; the injected request is in neither.
C21_ContextIsKwargs ==
    /\ [](/\ funcCall # None =>
                /\ funcCall.args = <<>>
                /\ fresh(funcCall.kwargs) = fresh(kwargs)
                /\ \A i \in 1..Len(funcCall.kwargs) : HandlerArgument(funcCall.kwargs[i])
          /\ renderCall # None =>
                /\ renderCall.context = kwargs
                /\ renderCall.request = dep
                /\ Len(renderCall.context) = Len(funcCall.kwargs)
                /\ \A i \in 1..Len(renderCall.context) :
                        /\ HandlerArgument(renderCall.context[i])
                        /\ renderCall.context[i] # dep)
    /\ [][pc = "start" => kwargs' = kwargs]_vars

\* A page route whose handler has two parameters and sets the status code of
\* its Response: the render function got both, the Response as the handler left it.
C21_Witness ==
    /\ route.kind = "page"
    /\ pc = "done"
    /\ renderCall # None
    /\ Len(renderCall.context) = 2
    /\ funcCall.kwargs = <<IntArg, FreshResponse>>
    /\ renderCall.context[2].status_code = 499
    /\ renderCall.request = request

\* C22: when the render function returns a string the wrapper returns an
\* HTML response with that string as body; when it returns a Response the
\* wrapper returns that very Response, not wrapped into another one.
C22_StringOrResponse ==
    (pc = "done" /\ renderCall # None /\ renderOut.kind = "return") =>
        /\ renderOut.value.type = "str" =>
                outcome = Returned(HTMLResponse(renderOut.value, get_response(kwargs)))
        /\ isinstance_Response(renderOut.value) => outcome = Returned(renderOut.value)

-----------------------------------------------------------------------------
(* Properties of the decorators of HTMY and Jinja (SpecDecorator) *)

\* The decorator of an HTMY instance has made the route.
HTMYRoute == adapter.type = "HTMY" /\ route # None

\* The decorator of a Jinja instance has made the route.
JinjaRoute == adapter.type = "Jinja" /\ route # None

\* Streaming is enabled: by the decorator's argument when it is given,
\* otherwise by the instance.
StreamingEnabled ==
    \/ decorator.stream = Bool(TRUE)
    \/ decorator.stream = None /\ adapter.stream

\* C23: the route HTMY.hx or HTMY.page makes streams exactly when streaming is
\* enabled and the renderer is a streaming renderer; the render function and
\* the error render function are both of the route's mode (both return an
\* AsyncIterator, or both a str), and a rendered response is a
\* StreamingResponse exactly on a streaming route.
C23_StreamingExactlyWhen ==
    HTMYRoute =>
        LET streams == StreamingEnabled /\ adapter.renderer.streaming
            mode == IF streams THEN "AsyncIterator" ELSE "str" IN
        /\ route.stream = streams
        /\ route.render.returns = mode
        /\ route.render_error # None => route.render_error.returns = mode
        /\ (pc \in {"done", "sent"} /\ renderCall # None /\ outcome.kind = "return") =>
                outcome.value.type = IF streams THEN "StreamingResponse" ELSE "HTMLResponse"

\* The instance streams and its renderer can, the decorator was given
\* stream=False: the error was rendered into a buffered response.
C23_Witness ==
    /\ HTMYRoute
    /\ adapter.stream /\ adapter.renderer.streaming
    /\ decorator.stream = Bool(FALSE)
    /\ pc = "done"
    /\ renderCall # None /\ renderCall.fn = "render_error"
    /\ route.render_error.returns = "str"
    /\ outcome.kind = "return" /\ outcome.value.type = "HTMLResponse"

\* C24: the route Jinja.hx or HTMY.hx makes is fragment-only exactly when the
\* instance or the decorator has no_data set; with no_data set on the
\* instance a request without the marker ends with HTTPException(400) and
\* nothing is called, whatever the decorator was given.
C24_NoDataDisjunction ==
    (adapter # None /\ route # None /\ decorator.method = "hx") =>
        /\ route.no_data = (adapter.no_data \/ decorator.no_data)
        /\ (adapter.no_data /\ ~Marked /\ pc \in {"done", "sent"}) =>
                /\ outcome = Raised([type |-> "HTTPException", status_code |-> 400])
                /\ calls = NoCalls

\* Jinja(no_data=True).hx(..., no_data=False), a request without the marker:
\* HTTPException(400), the handler was not called.
C24_Witness ==
    /\ JinjaRoute /\ decorator.method = "hx"
    /\ adapter.no_data /\ ~decorator.no_data
    /\ ~Marked
    /\ pc = "done"
    /\ outcome = Raised([type |-> "HTTPException", status_code |-> 400])
    /\ calls.func = 0

\* The name without its leading slashes.
Stripped(name) ==
    LET k == CHOOSE n \in 0..Len(name) :
                /\ \A i \in 1..n : name[i] = "/"
                /\ n = Len(name) \/ name[n + 1] # "/"
    IN SubSeq(name, k + 1, Len(name))

\* The template name the selector of the called render function gives.
SelectedTemplate ==
    IF AdFn.selector.type = "TemplateHeader"
    THEN get_component(AdFn.selector, renderCall.request, AdError).out.value
    ELSE AdFn.selector

\* A render function of Jinja was called and has resolved its template name.
JinjaResolved == JinjaRoute /\ AdSelected /\ target # None

\* C25: the name a Jinja render function resolves is the selected name
\* without its leading slashes, behind "<prefix>/" exactly when the prefix is
\* given and not empty and the selected name is not a JinjaPath, whether the
\* name was written in the decorator or selected by a TemplateHeader.
C25_TemplateName ==
    JinjaResolved =>
        LET name == Stripped(SelectedTemplate.value)
            prefixed == /\ SelectedTemplate.type # "JinjaPath"
                        /\ AdFn.prefix # None
                        /\ AdFn.prefix.value # <<>> IN
        target = JinjaStr(IF prefixed THEN AdFn.prefix.value \o <<"/">> \o name ELSE name)

\* A TemplateHeader selects the JinjaPath /e on a route with the prefix p:
\* the resolved name is e.
C25_Witness ==
    /\ JinjaResolved
    /\ AdFn.selector.type = "TemplateHeader"
    /\ AdFn.prefix = JinjaStr(<<"p">>)
    /\ SelectedTemplate = JinjaPath(<<"/", "e">>)
    /\ target = JinjaStr(<<"e">>)

\* C26: on a route of Jinja.hx or Jinja.page whose error template is a
\* TemplateHeader, a handler error the selector does not accept ends the
\* dispatch of a request the route renders with that very error, whatever
\* its class, KeyError included.
C26_UnacceptedErrorUnchanged ==
    (/\ JinjaRoute /\ pc = "done"
     /\ funcOut.kind = "raise"
     /\ route.render_error # None
     /\ route.render_error.selector.type = "TemplateHeader"
     /\ get_component_raises(route.render_error.selector, funcOut.value)
     /\ Rendering) =>
        outcome = Raised(funcOut.value)

-----------------------------------------------------------------------------
(* Properties of the side-channel Response (SpecSideChannel) *)

\* C27: the response built from a renderer's output has the status code (200
\* when unset), the headers and the background task of the first Response
\* among the keyword arguments, whatever a later Response among them holds;
\* without any Response among them it has the status code 200, no copied
\* header and no background task.
C27_FirstResponseOnly ==
    Built =>
        IF SideChannel = 0
        THEN /\ outcome.value.status_code = 200
             /\ outcome.value.headers = NoHeaders
             /\ outcome.value.background = None
        ELSE /\ outcome.value.status_code =
                    (IF kwargs[SideChannel].status_code = NoneStatus THEN 200
                     ELSE kwargs[SideChannel].status_code)
             /\ outcome.value.headers = kwargs[SideChannel].headers
             /\ outcome.value.background = kwargs[SideChannel].background

\* Two Response arguments, the handler set status code, header and background
\* task on the second: the response has 200, no header and no background task.
C27_Witness ==
    /\ Built
    /\ Len(kwargs) = 2 /\ Positions(kwargs) = {1, 2}
    /\ handler.target = 2
    /\ kwargs[2].status_code = 499
    /\ kwargs[2].headers # NoHeaders
    /\ kwargs[2].background = BackgroundTask
    /\ outcome.value.status_code = 200
    /\ outcome.value.headers = NoHeaders
    /\ outcome.value.background = None

-----------------------------------------------------------------------------
(* Properties of JinjaContext.wrap_as (SpecWrapAs) *)

\* The calls of wrap_as so far that returned a factory.
ReturnedFactory(i) == wrap_as_calls[i].out.kind = "return"

\* The keys of the calls after call i and before call j that made a new factory.
KeysBetween(i, j) ==
    {make_key(wrap_as_calls[k].call) :
        k \in {n \in (i + 1)..(j - 1) : ReturnedFactory(n) /\ wrap_as_calls[n].out.value.id = n}}

\* A call of wrap_as fails with ValueError exactly when its result_key equals
\* its context_key.
WrapAsValueError ==
    \A i \in 1..Len(wrap_as_calls) :
        LET p == wrap_as_parameters(wrap_as_calls[i].call) IN
        IF p.result_key = p.context_key
        THEN wrap_as_calls[i].out = Raised(Exc("ValueError"))
        ELSE /\ ReturnedFactory(i)
             /\ wrap_as_calls[i].out.value.result_key = p.result_key
             /\ wrap_as_calls[i].out.value.context_key = p.context_key

\* The factory returns {result_key: route_result}, and {context_key:
\* route_context} as well exactly when its context_key is not None.
WrapContext ==
    jc_pc = "done" /\ make_context # None /\ make_context.type = "wrap" =>
        /\ jinja_context.kind = "return"
        /\ jinja_context.value.id = "new"
        /\ jinja_context.value.items =
            << <<make_context.result_key.value, route_result>> >>
            \o (IF make_context.context_key # None
                THEN << <<make_context.context_key.value, route_context>> >>
                ELSE <<>>)

\* C28 as stated: a call with result_key equal to context_key fails with
\* ValueError, any two calls whose result_key and context_key are equal
\* return the identical factory object, and the factory returns
\* {result_key: route_result} plus {context_key: route_context} when a
\* context_key was given.  wrap_as("r") and wrap_as("r", None) differ.
C28_EqualArgumentsIdentical ==
    /\ WrapAsValueError
    /\ \A i, j \in 1..Len(wrap_as_calls) :
        (/\ ReturnedFactory(i) /\ ReturnedFactory(j)
         /\ wrap_as_parameters(wrap_as_calls[i].call)
            = wrap_as_parameters(wrap_as_calls[j].call))
        => wrap_as_calls[i].out.value.id = wrap_as_calls[j].out.value.id
    /\ WrapContext

\* C28, amended: a call with result_key equal to context_key fails with
\* ValueError; two calls written with the same positional and keyword
\* arguments return the identical factory object while fewer than maxsize
\* other call patterns were cached in between; the factory returns
\* {result_key: route_result}, and {context_key: route_context} as well
\* exactly when context_key is not None.
C28_SameCallIdentical ==
    /\ WrapAsValueError
    /\ \A i, j \in 1..Len(wrap_as_calls) :
        (/\ i < j /\ ReturnedFactory(i) /\ ReturnedFactory(j)
         /\ make_key(wrap_as_calls[i].call) = make_key(wrap_as_calls[j].call)
         /\ Cardinality(KeysBetween(i, j)) < maxsize)
        => wrap_as_calls[i].out.value.id = wrap_as_calls[j].out.value.id
    /\ WrapContext

\* wrap_as was called twice the same way and once with equal keys, and a
\* factory with a context_key was called.
C28_Witness ==
    /\ jc_pc = "done"
    /\ make_context.type = "wrap"
    /\ make_context.context_key # None
    /\ \E i, j \in 1..Len(wrap_as_calls) :
        /\ i < j
        /\ wrap_as_calls[i].call = wrap_as_calls[j].call
        /\ ReturnedFactory(i)
    /\ \E i \in 1..Len(wrap_as_calls) : wrap_as_calls[i].out.kind = "raise"

-----------------------------------------------------------------------------
(* Properties of the dispatch: errors of the render functions (Spec) *)

\* C29: render_error is only ever given the error the handler raised; an error
\* raised by render or by render_error is given to no render function, no
\* render function is called after it, and it is how the wrapper ends.
C29_RenderErrorsPropagate ==
    /\ [](/\ (renderCall # None /\ renderCall.fn = "render_error") =>
                /\ funcOut.kind = "raise"
                /\ renderCall.result = funcOut.value
          /\ renderOut.kind = "raise" =>
                /\ calls.render + calls.render_error = 1
                /\ pc \in {"after_render", "done"}
                /\ pc = "done" => outcome = renderOut)
    /\ [][(renderOut.kind = "raise" /\ pc # "done") =>
            (pc' = "done" /\ calls' = calls /\ renderCall' = renderCall)]_vars

\* The handler returned data, render raised while a render_error was
\* configured, and the wrapper ended with render's error.
C29_Witness ==
    /\ pc = "done"
    /\ route.render_error # None
    /\ funcOut.kind = "return"
    /\ renderCall # None
    /\ renderCall.fn = "render"
    /\ renderOut = Raised(Exc("RenderError"))
    /\ outcome = renderOut
    /\ calls.render_error = 0

\* C30: in one dispatch the handler is called at most once and at most one
\* render function is called, at most once: render only after the handler
\* returned, render_error only after the handler raised, and no render
\* function before the handler was called.
C30_AtMostOnce ==
    /\ calls.func <= 1
    /\ calls.render + calls.render_error <= 1
    /\ calls.render = 1 => (calls.func = 1 /\ funcOut.kind = "return")
    /\ calls.render_error = 1 => (calls.func = 1 /\ funcOut.kind = "raise")
    /\ calls.func = 0 => funcOut = Pending
    /\ pc \in {"after_render", "done"} /\ renderCall # None =>
            calls[renderCall.fn] = 1

\* A page route whose handler raised: render_error was called once, render
\* was not, and the dispatch is over.
C30_Witness ==
    /\ pc = "done"
    /\ route.kind = "page"
    /\ funcOut.kind = "raise"
    /\ calls.func = 1
    /\ calls.render_error = 1
    /\ calls.render = 0

====
